---- MODULE Spec2Model ----
(***************************************************************************)
(* A model of the xmlquery tree-building parser (parser.parse), of the     *)
(* node-tree primitives it uses (AddChild / AddSibling / RemoveFromTree)   *)
(* and of the streaming front end (CreateStreamParser / StreamParser.Read).*)
(*                                                                         *)
(* Nodes live in an arena: `nodes` is a sequence of node records, a node   *)
(* is its index, the Document node is index 1 and Nil (0) is the nil       *)
(* pointer.  The xml.Decoder is the environment: it delivers tokens that   *)
(* are properly nested (it keeps its own stack of open element names) and  *)
(* it may report io.EOF (only with no element open) or a syntax error.     *)
(***************************************************************************)
EXTENDS Integers, Sequences, FiniteSets, TLC

\* ---------------------------------------------------------------- bounds
\* longest token sequence the decoder delivers to a full parse (the final
\* io.EOF / error not counted)
MaxTokens == 5
\* longest token sequence the decoder delivers to a stream parser
MaxStreamTokens == 7
\* deepest element nesting the decoder delivers
MaxDepth == 3
\* most RemoveFromTree calls the caller makes on a parsed tree
MaxRemoves == 2
\* most successful compilations in one run of the selector cache
MaxCompiles == 3
\* number of CachedReader calls explored
MaxReaderOps == 5
\* longest read buffer passed to CachedReader.Read
MaxRead == 2
\* CachedReader.cacheCap, 4096 in the source, scaled down so that reads fill it
cacheCap == 3
\* the bytes of the input, and the zero byte of a fresh cache array
Bytes == {"A", "B"}
NUL == "0"

Nil == 0
Doc == 1

\* the default of SelectorCacheMaxEntries
DefaultMaxEntries == 50
\* the values the program assigns to SelectorCacheMaxEntries
MaxEntriesValues == {0, 1, 2, DefaultMaxEntries}

Names == {"A", "B"}
TextVals == {"x", "y"}
XMLNamespace == "http://www.w3.org/XML/1998/namespace"

VARIABLES
    nodes,                    \* the arena of Node records
    level,                    \* parser.level
    prev,                     \* parser.prev
    streamElementXPath,       \* parser.streamElementXPath (NoExpr = nil)
    streamElementFilter,      \* parser.streamElementFilter (NoExpr = nil)
    streamNode,               \* parser.streamNode
    streamNodePrev,           \* parser.streamNodePrev
    streamElementNodeCounter, \* the local counter of parser.parse
    space2prefix,             \* parser.space2prefix
    strict,                   \* decoder.Strict
    stk,                      \* the decoder's stack of open element names
    ntok,                     \* number of tokens the decoder has delivered
    pc,                       \* where the caller is: new/idle/parsing/done/failed/edited/panic/hang
    ret,                      \* node returned by the last call (Nil = none)
    err,                      \* error returned by the last call ("" = nil)
    argXPath,                 \* streamElementXPath as passed to CreateStreamParser
    argFilter,                \* streamElementFilter as passed ("" = not given)
    mode,                     \* the entry point in use: "full" (Parse) or "stream"
    open,                     \* history: node created for each open element of stk
    refParent,                \* history: node -> parent an ancestor-stack builder gives it
    refMatch,                 \* history: elements whose start tag matches the target by ancestry
    yielded,                  \* history: nodes returned by Read, in order
    rejected,                 \* history: candidates rejected by the filter
    selfMatched,              \* history: yielded candidates selected by the target at capture
    selfFiltered,             \* history: yielded candidates selected by the filter at yield
    toks,                     \* what decoder.Token() has returned, in order: tokens, then
                              \* the error that ended the parse (kind "error")
    removed,                  \* history: nodes the caller detached with RemoveFromTree, in order
    DisableSelectorCache,     \* the package variable DisableSelectorCache
    SelectorCacheMaxEntries,  \* the package variable SelectorCacheMaxEntries
    cache,                    \* the package variable cache (NoCache = nil, before cacheOnce)
    cacheMutex,               \* the goroutine that holds cacheMutex (0 = unlocked)
    qpc,                      \* per goroutine: its position in getQuery
    qkey,                     \* per goroutine: the key of its getQuery call
    qval,                     \* per goroutine: the object it compiled (0 = none)
    qret,                     \* per goroutine: the object its last getQuery returned
    compiled,                 \* history: the key of every xpath.Compile that succeeded, in order
    evicted,                  \* history: the keys the cache evicted, in order
    recent,                   \* history: the cached keys, most recently used first
    crCache,                  \* CachedReader.cache, all cacheCap bytes of it
    cacheLen,                 \* CachedReader.cacheLen
    caching,                  \* CachedReader.caching
    delivered,                \* history: the bytes handed to the caller by ReadByte and
                              \* Read while caching, since the last StartCaching
    rops                      \* number of CachedReader calls made

pvars == <<level, prev, streamNode, streamNodePrev, streamElementNodeCounter,
           space2prefix>>
cvars == <<streamElementXPath, streamElementFilter, strict, argXPath, argFilter, mode>>
hvars == <<open, refParent, refMatch, yielded, rejected, selfMatched, selfFiltered,
           removed>>
dvars == <<nodes, pvars, cvars, stk, ntok, toks, pc, ret, err, hvars>>
qvars == <<DisableSelectorCache, SelectorCacheMaxEntries, cache, cacheMutex, qpc, qkey,
           qval, qret, compiled, evicted, recent>>
rvars == <<crCache, cacheLen, caching, delivered, rops>>
vars == <<dvars, qvars, rvars>>

\* ------------------------------------------------------------ node model
NewNode(type, data, lvl) ==
    [Parent |-> Nil, FirstChild |-> Nil, LastChild |-> Nil,
     PrevSibling |-> Nil, NextSibling |-> Nil,
     Type |-> type, Data |-> data, Prefix |-> "", NamespaceURI |-> "",
     Attr |-> <<>>, level |-> lvl]

\* n.Parent = parent; append n to parent's child list
AddChild(ns, parent, n) ==
    LET a == [ns EXCEPT ![n].Parent = parent]
        b == IF a[parent].FirstChild = Nil
             THEN [a EXCEPT ![parent].FirstChild = n]
             ELSE [a EXCEPT ![a[parent].LastChild].NextSibling = n,
                            ![n].PrevSibling = a[parent].LastChild]
    IN  [b EXCEPT ![parent].LastChild = n]

RECURSIVE LastSibling(_, _, _)
\* for t := sibling.NextSibling; t != nil; t = t.NextSibling { sibling = t }
LastSibling(ns, s, fuel) ==
    IF fuel = 0 \/ ns[s].NextSibling = Nil THEN s
    ELSE LastSibling(ns, ns[s].NextSibling, fuel - 1)

\* AddSibling as it would be without the update of the parent's LastChild
AddSibling_NoLastChild(ns, sibling, n) ==
    LET s == LastSibling(ns, sibling, Len(ns))
    IN  [ns EXCEPT ![n].Parent = ns[s].Parent,
                   ![s].NextSibling = n,
                   ![n].PrevSibling = s]

\* AddSibling as it would be without the walk to the last sibling
AddSibling_NoWalk(ns, sibling, n) ==
    LET s == sibling
        a == [ns EXCEPT ![n].Parent = ns[s].Parent,
                        ![s].NextSibling = n,
                        ![n].PrevSibling = s]
    IN  IF ns[s].Parent # Nil
        THEN [a EXCEPT ![ns[s].Parent].LastChild = n]
        ELSE a

AddSibling(ns, sibling, n) ==
    LET s == LastSibling(ns, sibling, Len(ns))
        a == [ns EXCEPT ![n].Parent = ns[s].Parent,
                        ![s].NextSibling = n,
                        ![n].PrevSibling = s]
    IN  IF ns[s].Parent # Nil
        THEN [a EXCEPT ![ns[s].Parent].LastChild = n]
        ELSE a

\* RemoveFromTree as it would be if the detached node let go of its children
RemoveFromTree_DropsChildren(ns, n) ==
    LET p == ns[n].Parent
        a == IF ns[p].FirstChild = n
             THEN IF ns[p].LastChild = n
                  THEN [ns EXCEPT ![p].FirstChild = Nil, ![p].LastChild = Nil]
                  ELSE [ns EXCEPT ![p].FirstChild = ns[n].NextSibling,
                                  ![ns[n].NextSibling].PrevSibling = Nil]
             ELSE IF ns[p].LastChild = n
                  THEN [ns EXCEPT ![p].LastChild = ns[n].PrevSibling,
                                  ![ns[n].PrevSibling].NextSibling = Nil]
                  ELSE [ns EXCEPT ![ns[n].PrevSibling].NextSibling = ns[n].NextSibling,
                                  ![ns[n].NextSibling].PrevSibling = ns[n].PrevSibling]
    IN  IF p = Nil THEN ns
        ELSE [a EXCEPT ![n].Parent = Nil, ![n].PrevSibling = Nil, ![n].NextSibling = Nil,
                       ![n].FirstChild = Nil, ![n].LastChild = Nil]

\* RemoveFromTree as it would be without the early return for a node
\* without Parent: the node's sibling links are cleared all the same
RemoveFromTree_NoRootCheck(ns, n) ==
    LET p == ns[n].Parent
        a == IF ns[p].FirstChild = n
             THEN IF ns[p].LastChild = n
                  THEN [ns EXCEPT ![p].FirstChild = Nil, ![p].LastChild = Nil]
                  ELSE [ns EXCEPT ![p].FirstChild = ns[n].NextSibling,
                                  ![ns[n].NextSibling].PrevSibling = Nil]
             ELSE IF ns[p].LastChild = n
                  THEN [ns EXCEPT ![p].LastChild = ns[n].PrevSibling,
                                  ![ns[n].PrevSibling].NextSibling = Nil]
                  ELSE [ns EXCEPT ![ns[n].PrevSibling].NextSibling = ns[n].NextSibling,
                                  ![ns[n].NextSibling].PrevSibling = ns[n].PrevSibling]
    IN  IF p = Nil
        THEN [ns EXCEPT ![n].PrevSibling = Nil, ![n].NextSibling = Nil,
                        ![n].FirstChild = Nil, ![n].LastChild = Nil]
        ELSE [a EXCEPT ![n].Parent = Nil, ![n].PrevSibling = Nil, ![n].NextSibling = Nil]

\* RemoveFromTree as it would be if it unlinked the siblings but forgot to
\* take the node out of its parent's FirstChild / LastChild
RemoveFromTree_KeepsChildLinks(ns, n) ==
    LET p == ns[n].Parent
        a == IF ns[n].PrevSibling # Nil
             THEN [ns EXCEPT ![ns[n].PrevSibling].NextSibling = ns[n].NextSibling]
             ELSE ns
        b == IF ns[n].NextSibling # Nil
             THEN [a EXCEPT ![ns[n].NextSibling].PrevSibling = ns[n].PrevSibling]
             ELSE a
    IN  IF p = Nil THEN ns
        ELSE [b EXCEPT ![n].Parent = Nil, ![n].PrevSibling = Nil, ![n].NextSibling = Nil]

\* RemoveFromTree as it would be if it took the node out of its parent's
\* child pointers but left its neighbours pointing at it
RemoveFromTree_KeepsNeighbourLinks(ns, n) ==
    LET p == ns[n].Parent
        a == IF ns[p].FirstChild = n
             THEN IF ns[p].LastChild = n
                  THEN [ns EXCEPT ![p].FirstChild = Nil, ![p].LastChild = Nil]
                  ELSE [ns EXCEPT ![p].FirstChild = ns[n].NextSibling]
             ELSE IF ns[p].LastChild = n
                  THEN [ns EXCEPT ![p].LastChild = ns[n].PrevSibling]
                  ELSE ns
    IN  IF p = Nil THEN ns
        ELSE [a EXCEPT ![n].Parent = Nil, ![n].PrevSibling = Nil, ![n].NextSibling = Nil]

RemoveFromTree(ns, n) ==
    LET p == ns[n].Parent
        a == IF ns[p].FirstChild = n
             THEN IF ns[p].LastChild = n
                  THEN [ns EXCEPT ![p].FirstChild = Nil, ![p].LastChild = Nil]
                  ELSE [ns EXCEPT ![p].FirstChild = ns[n].NextSibling,
                                  ![ns[n].NextSibling].PrevSibling = Nil]
             ELSE IF ns[p].LastChild = n
                  THEN [ns EXCEPT ![p].LastChild = ns[n].PrevSibling,
                                  ![ns[n].PrevSibling].NextSibling = Nil]
                  ELSE [ns EXCEPT ![ns[n].PrevSibling].NextSibling = ns[n].NextSibling,
                                  ![ns[n].NextSibling].PrevSibling = ns[n].PrevSibling]
    IN  IF p = Nil THEN ns
        ELSE [a EXCEPT ![n].Parent = Nil, ![n].PrevSibling = Nil, ![n].NextSibling = Nil]

\* ------------------------------------------------------- tree navigation
RECURSIVE Chain(_, _, _)
\* the nodes from n on along NextSibling
Chain(ns, n, fuel) ==
    IF n = Nil \/ fuel = 0 THEN <<>>
    ELSE <<n>> \o Chain(ns, ns[n].NextSibling, fuel - 1)

Children(ns, p) == Chain(ns, ns[p].FirstChild, Len(ns))

RECURSIVE Preorder(_, _, _)
RECURSIVE PreorderAll(_, _, _)
\* n and its descendants in document order
Preorder(ns, n, fuel) ==
    IF fuel = 0 THEN <<n>>
    ELSE <<n>> \o PreorderAll(ns, Children(ns, n), fuel - 1)
PreorderAll(ns, cs, fuel) ==
    IF cs = <<>> THEN <<>>
    ELSE Preorder(ns, Head(cs), fuel) \o PreorderAll(ns, Tail(cs), fuel)

Range(s) == {s[i] : i \in DOMAIN s}

Reachable(ns) == Range(Preorder(ns, Doc, Len(ns)))

RECURSIVE ParentSteps(_, _, _)
\* number of Parent steps from n up to a node without Parent
ParentSteps(ns, n, fuel) ==
    IF ns[n].Parent = Nil \/ fuel = 0 THEN 0
    ELSE 1 + ParentSteps(ns, ns[n].Parent, fuel - 1)

RECURSIVE TopOf(_, _, _)
TopOf(ns, n, fuel) ==
    IF ns[n].Parent = Nil \/ fuel = 0 THEN n
    ELSE TopOf(ns, ns[n].Parent, fuel - 1)

\* ------------------------------------------------------ XPath expressions
\* A compiled expression: a path of element names from the Document ("abs")
\* or a name anywhere below it ("desc"), with an optional predicate on the
\* selected element: a text child with a given value, no text child with a
\* given value, or an element child with a given name.
NoExpr == [axis |-> "nil", path |-> <<>>, pk |-> "none", pv |-> ""]
Expr(axis, path, pk, pv) == [axis |-> axis, path |-> path, pk |-> pk, pv |-> pv]

BadText == "[invalid"

\* xpath.Compile: the expression texts the model knows; any other text fails
Compile(text) ==
    CASE text = "/A"               -> Expr("abs", <<"A">>, "none", "")
      [] text = "/A/B"             -> Expr("abs", <<"A", "B">>, "none", "")
      [] text = "//B"              -> Expr("desc", <<"B">>, "none", "")
      [] text = "/A[B]"            -> Expr("abs", <<"A">>, "child", "B")
      [] text = "/A/B[text()='x']" -> Expr("abs", <<"A", "B">>, "text", "x")
      [] text = "//B[text()='x']"  -> Expr("desc", <<"B">>, "text", "x")
      [] text = "/A/B[not(text()='x')]" -> Expr("abs", <<"A", "B">>, "notext", "x")
      [] OTHER                     -> NoExpr

CompileFails(text) == Compile(text) = NoExpr

\* getQuery(expr): the compiled expression (the selector cache only memoizes it)
getQuery(text) == Compile(text)

RECURSIVE NamePath(_, _, _)
\* names of the elements from below the top of n's tree down to n; <<"?">> marks
\* an ancestor that is no element
NamePath(ns, n, fuel) ==
    IF ns[n].Parent = Nil \/ fuel = 0 THEN <<>>
    ELSE NamePath(ns, ns[n].Parent, fuel - 1)
         \o <<IF ns[n].Type = "Element" THEN ns[n].Data ELSE "?">>

PredHolds(ns, e, n) ==
    CASE e.pk = "none"  -> TRUE
      [] e.pk = "text"  -> \E c \in Range(Children(ns, n)) :
                              ns[c].Type \in {"Text", "CharData"} /\ ns[c].Data = e.pv
      [] e.pk = "child" -> \E c \in Range(Children(ns, n)) :
                              ns[c].Type = "Element" /\ ns[c].Data = e.pv
      [] e.pk = "notext" -> ~\E c \in Range(Children(ns, n)) :
                              ns[c].Type \in {"Text", "CharData"} /\ ns[c].Data = e.pv

\* n is in the node-set e selects when evaluated from the Document node
Selects(ns, e, n) ==
    /\ n \in Reachable(ns)
    /\ ns[n].Type = "Element"
    /\ CASE e.axis = "abs"  -> NamePath(ns, n, Len(ns)) = e.path
         [] e.axis = "desc" -> ns[n].Data = e.path[1]
         [] OTHER           -> FALSE
    /\ PredHolds(ns, e, n)

\* QuerySelector(p.doc, selector): the first selected node in document order
QuerySelector(ns, e) ==
    LET hits == SelectSeq(Preorder(ns, Doc, Len(ns)), LAMBDA n : Selects(ns, e, n))
    IN  IF hits = <<>> THEN Nil ELSE Head(hits)

\* ------------------------------------------------------------ the parser
Last(s) == s[Len(s)]
Front(s) == SubSeq(s, 1, Len(s) - 1)

\* the map parse() installs on its first call
InitSpace2Prefix == [u \in {XMLNamespace} |-> [name |-> "xml", level |-> 0]]

RECURSIVE WalkUp(_, _, _)
\* for i := p.prev.level - p.level; i > 1; i-- { p.prev = p.prev.Parent }
WalkUp(ns, pv, i) ==
    IF i <= 1 \/ pv = Nil THEN pv ELSE WalkUp(ns, ns[pv].Parent, i - 1)

\* The depth-relative attachment of node n (already in the arena, unlinked)
\* at parser level lvl with cursor pv.  A nil cursor, a walk that runs off
\* the top of the tree, or a nil p.prev.Parent is a nil dereference: panic.
Attach(ns, lvl, pv, n) ==
    IF pv = Nil THEN [nodes |-> ns, prev |-> pv, panic |-> TRUE]
    ELSE IF lvl = ns[pv].level
    THEN [nodes |-> AddSibling(ns, pv, n), prev |-> pv, panic |-> FALSE]
    ELSE IF lvl > ns[pv].level
    THEN [nodes |-> AddChild(ns, pv, n), prev |-> pv, panic |-> FALSE]
    ELSE LET w == WalkUp(ns, pv, ns[pv].level - lvl)
         IN  IF w = Nil \/ ns[w].Parent = Nil
             THEN [nodes |-> ns, prev |-> w, panic |-> TRUE]
             ELSE [nodes |-> AddSibling(ns, ns[w].Parent, n), prev |-> w,
                   panic |-> FALSE]

RECURSIVE ApplyXmlns_AlwaysReplaces(_, _, _)
\* ApplyXmlns as it would be if a default declaration always replaced the
\* binding of its URI
ApplyXmlns_AlwaysReplaces(m, attrs, lvl) ==
    IF attrs = <<>> THEN m
    ELSE LET att == Head(attrs)
             m1 == IF att.local = "xmlns"
                   THEN [u \in DOMAIN m \cup {att.value} |->
                            IF u = att.value THEN [name |-> "", level |-> lvl]
                            ELSE m[u]]
                   ELSE IF att.space = "xmlns"
                   THEN [u \in DOMAIN m \cup {att.value} |->
                            IF u = att.value THEN [name |-> att.local, level |-> lvl]
                            ELSE m[u]]
                   ELSE m
         IN  ApplyXmlns_AlwaysReplaces(m1, Tail(attrs), lvl)

RECURSIVE ApplyXmlns_LeadingOnly(_, _, _)
\* ApplyXmlns as it would be if the declarations were applied while the
\* attributes are resolved one by one: those behind the first other
\* attribute come too late
ApplyXmlns_LeadingOnly(m, attrs, lvl) ==
    IF attrs = <<>> THEN m
    ELSE LET att == Head(attrs)
         IN  IF att.local = "xmlns"
             THEN ApplyXmlns_LeadingOnly(
                      IF att.value \notin DOMAIN m \/ m[att.value].level >= lvl
                      THEN [u \in DOMAIN m \cup {att.value} |->
                               IF u = att.value THEN [name |-> "", level |-> lvl]
                               ELSE m[u]]
                      ELSE m, Tail(attrs), lvl)
             ELSE IF att.space = "xmlns"
             THEN ApplyXmlns_LeadingOnly(
                      [u \in DOMAIN m \cup {att.value} |->
                          IF u = att.value THEN [name |-> att.local, level |-> lvl]
                          ELSE m[u]], Tail(attrs), lvl)
             ELSE m

RECURSIVE ApplyXmlns_ClosesDeeperScopes(_, _, _)
\* ApplyXmlns as it would be if the bindings of elements deeper than the
\* start tag, which are closed by then, went out of scope
ApplyXmlns_ClosesDeeperScopes(m, attrs, lvl) ==
    IF attrs = <<>> THEN [u \in {v \in DOMAIN m : m[v].level <= lvl} |-> m[u]]
    ELSE LET att == Head(attrs)
             m1 == IF att.local = "xmlns"
                   THEN IF att.value \notin DOMAIN m \/ m[att.value].level >= lvl
                        THEN [u \in DOMAIN m \cup {att.value} |->
                                 IF u = att.value THEN [name |-> "", level |-> lvl]
                                 ELSE m[u]]
                        ELSE m
                   ELSE IF att.space = "xmlns"
                   THEN [u \in DOMAIN m \cup {att.value} |->
                            IF u = att.value THEN [name |-> att.local, level |-> lvl]
                            ELSE m[u]]
                   ELSE m
         IN  ApplyXmlns_ClosesDeeperScopes(m1, Tail(attrs), lvl)

RECURSIVE ApplyXmlns(_, _, _)
\* the first loop over tok.Attr: xmlns and xmlns:prefix declarations
ApplyXmlns(m, attrs, lvl) ==
    IF attrs = <<>> THEN m
    ELSE LET att == Head(attrs)
             m1 == IF att.local = "xmlns"
                   THEN IF att.value \notin DOMAIN m \/ m[att.value].level >= lvl
                        THEN [u \in DOMAIN m \cup {att.value} |->
                                 IF u = att.value THEN [name |-> "", level |-> lvl]
                                 ELSE m[u]]
                        ELSE m
                   ELSE IF att.space = "xmlns"
                   THEN [u \in DOMAIN m \cup {att.value} |->
                            IF u = att.value THEN [name |-> att.local, level |-> lvl]
                            ELSE m[u]]
                   ELSE m
         IN  ApplyXmlns(m1, Tail(attrs), lvl)

\* NodeAttrs as it would be if the attributes were stored last to first
NodeAttrs_Reversed(m, attrs) ==
    [i \in DOMAIN attrs |->
        [Space |-> IF attrs[Len(attrs) + 1 - i].space \in DOMAIN m
                   THEN m[attrs[Len(attrs) + 1 - i].space].name
                   ELSE attrs[Len(attrs) + 1 - i].space,
         Local |-> attrs[Len(attrs) + 1 - i].local,
         Value |-> attrs[Len(attrs) + 1 - i].value,
         NamespaceURI |-> attrs[Len(attrs) + 1 - i].space]]

\* the second loop over tok.Attr: the node's attribute list
NodeAttrs(m, attrs) ==
    [i \in DOMAIN attrs |->
        [Space |-> IF attrs[i].space \in DOMAIN m THEN m[attrs[i].space].name
                   ELSE attrs[i].space,
         Local |-> attrs[i].local,
         Value |-> attrs[i].value,
         NamespaceURI |-> attrs[i].space]]

\* does a start tag opened under the decoder's element path select by ancestry
RefSelects(e, path) ==
    /\ e.pk = "none"
    /\ CASE e.axis = "abs"  -> path = e.path
         [] e.axis = "desc" -> Last(path) = e.path[1]
         [] OTHER           -> FALSE

\* an xml.StartElement as the decoder delivers it: Name.Local, Name.Space
\* (the namespace URI, or the prefix itself when the prefix is not declared),
\* Attr, and the prefix written in front of the name in the source
PlainStart(name) == [name |-> name, space |-> "", attr |-> <<>>, written |-> ""]

\* the record kept in toks for a delivered token; cdata: the character data
\* was written as a CDATA section
Token(kind, data, cdata, tag) == [kind |-> kind, data |-> data, cdata |-> cdata, tag |-> tag]

\* The decoder reads a run of plain text up to and including the "<" that
\* ends it, so the bytes of the token after a text token lack their "<".
LookaheadConsumed ==
    toks # <<>> /\ Last(toks).kind = "CharData" /\ ~Last(toks).cdata

\* the bytes of character data, as a sequence of lexemes
Raw(data) ==
    IF data = "![CDATA[x" THEN <<"![CDATA[", "x">> ELSE <<data>>

\* what the cached reader holds after decoder.Token() returned a CharData
Cached(data, cdata) ==
    IF cdata
    THEN (IF LookaheadConsumed THEN <<>> ELSE <<"<">>)
         \o <<"![CDATA[">> \o Raw(data) \o <<"]]>">>
    ELSE Raw(data) \o <<"<">>

\* p.reader.CacheWithLimit(9): nine bytes are "<" and "![CDATA[", two lexemes
CacheWithLimit(c) == SubSeq(c, 1, IF Len(c) < 2 THEN Len(c) ELSE 2)

\* bytes.ToUpper
ToUpper(c) ==
    [i \in DOMAIN c |-> CASE c[i] = "x" -> "X" [] c[i] = "y" -> "Y" [] OTHER -> c[i]]

HasPrefix(c, pre) == Len(c) >= Len(pre) /\ SubSeq(c, 1, Len(pre)) = pre

\* nodeType of case xml.CharData
CharDataType(data, cdata) ==
    LET cached == ToUpper(CacheWithLimit(Cached(data, cdata)))
    IN  IF HasPrefix(cached, <<"<", "![CDATA[">>) \/ HasPrefix(cached, <<"![CDATA[">>)
        THEN "CharData" ELSE "Text"

Parsing == pc = "parsing"
MoreTokens == ntok < (IF mode = "full" THEN MaxTokens ELSE MaxStreamTokens)

Panic(pv) ==
    /\ pc' = "panic"
    /\ prev' = pv
    /\ ret' = Nil
    /\ UNCHANGED <<nodes, level, streamNode, streamNodePrev, streamElementNodeCounter,
                   space2prefix, cvars, err, hvars>>

\* NamespaceMissing as it would be if the decoder's Strict flag were not read
NamespaceMissing_AlwaysStrict(tok, m) ==
    tok.space # "" /\ tok.space \notin DOMAIN m

\* if space := tok.Name.Space; space != "" { if _, found := ...; !found && p.decoder.Strict
NamespaceMissing(tok, m) ==
    tok.space # "" /\ tok.space \notin DOMAIN m /\ strict

\* NoCandidate as it would be if every matching start tag were captured
NoCandidate_Always(sn) == TRUE

\* if p.streamNode == nil
NoCandidate(sn) == sn = Nil

\* case xml.StartElement
StartElement(tok) ==
    /\ UNCHANGED <<qvars, rvars>>
    /\ Parsing /\ MoreTokens /\ Len(stk) < MaxDepth
    /\ ntok' = ntok + 1
    /\ toks' = Append(toks, Token("StartElement", tok.name, FALSE, tok))
    /\ stk' = Append(stk, tok.name)
    /\ LET \* the synthesized declaration when p.level == 0
           decl == [NewNode("Declaration", "xml", 1) EXCEPT
                       !.Attr = <<[Space |-> "", Local |-> "version", Value |-> "1.0",
                                   NamespaceURI |-> ""]>>]
           ns0  == IF level = 0
                   THEN AddChild(Append(nodes, decl), prev, Len(nodes) + 1)
                   ELSE nodes
           lvl  == IF level = 0 THEN 1 ELSE level
           pv0  == IF level = 0 THEN Len(nodes) + 1 ELSE prev
           rp0  == IF level = 0 THEN Append(refParent, Doc) ELSE refParent
           m    == ApplyXmlns(space2prefix, tok.attr, lvl)
           n    == Len(ns0) + 1
           elem == [NewNode("Element", tok.name, lvl) EXCEPT
                       !.NamespaceURI = tok.space,
                       !.Attr = NodeAttrs(m, tok.attr)]
           at   == Attach(Append(ns0, elem), lvl, pv0, n)
           \* node.Prefix: the bound prefix, if it is the one written in the source
           ns1  == IF tok.space # "" /\ tok.space \in DOMAIN m
                      /\ m[tok.space].name = tok.written /\ tok.written # ""
                   THEN [at.nodes EXCEPT ![n].Prefix = m[tok.space].name]
                   ELSE at.nodes
           hit  == QuerySelector(ns1, streamElementXPath) # Nil
           rpar == IF open = <<>> THEN Doc ELSE Last(open)
       IN  IF NamespaceMissing(tok, m)
           THEN \* namespace ... is missing
                /\ pc' = "done"
                /\ ret' = Nil
                /\ err' = "namespace is missing"
                /\ nodes' = ns0
                /\ level' = lvl
                /\ prev' = pv0
                /\ space2prefix' = m
                /\ refParent' = rp0
                /\ UNCHANGED <<streamNode, streamNodePrev, streamElementNodeCounter,
                               cvars, open, refMatch, yielded, rejected,
                               selfMatched, selfFiltered, removed>>
           ELSE IF at.panic
           THEN /\ pc' = "panic"
                /\ ret' = Nil
                /\ nodes' = ns0
                /\ level' = lvl
                /\ prev' = at.prev
                /\ space2prefix' = m
                /\ refParent' = rp0
                /\ UNCHANGED <<streamNode, streamNodePrev, streamElementNodeCounter,
                               cvars, err, open, refMatch, yielded, rejected,
                               selfMatched, selfFiltered, removed>>
           ELSE /\ nodes' = ns1
                /\ space2prefix' = m
                /\ IF streamElementXPath # NoExpr /\ NoCandidate(streamNode) /\ hit
                   THEN /\ streamNode' = n
                        /\ streamNodePrev' = at.prev
                        /\ streamElementNodeCounter' = 1
                        /\ selfMatched' = IF Selects(ns1, streamElementXPath, n)
                                          THEN selfMatched \cup {n} ELSE selfMatched
                   ELSE /\ streamElementNodeCounter' =
                              IF streamElementXPath # NoExpr /\ streamNode # Nil
                              THEN streamElementNodeCounter + 1
                              ELSE streamElementNodeCounter
                        /\ UNCHANGED <<streamNode, streamNodePrev, selfMatched>>
                /\ prev' = n
                /\ level' = lvl + 1
                /\ open' = Append(open, n)
                /\ refParent' = Append(rp0, rpar)
                /\ refMatch' = IF RefSelects(streamElementXPath, stk')
                               THEN Append(refMatch, n) ELSE refMatch
                /\ UNCHANGED <<cvars, pc, ret, err, yielded, rejected, selfFiltered, removed>>

\* CandidateClosed as it would be if the candidate were taken for closed one
\* element early
CandidateClosed_AtOne(counter) == counter <= 1

\* if streamElementNodeCounter == 0
CandidateClosed(counter) == counter = 0

\* RejectCandidate as it would be if the reject path, like the next Read
\* after a yield, also removed the sibling before the candidate
RejectCandidate_WithNoise(ns, c) ==
    IF ns[c].PrevSibling # Nil
    THEN RemoveFromTree(RemoveFromTree(ns, ns[c].PrevSibling), c)
    ELSE RemoveFromTree(ns, c)

\* the reject path's RemoveFromTree(p.streamNode)
RejectCandidate(ns, c) == RemoveFromTree(ns, c)

\* case xml.EndElement
EndElement ==
    /\ UNCHANGED <<qvars, rvars>>
    /\ Parsing /\ MoreTokens /\ stk # <<>>
    /\ ntok' = ntok + 1
    /\ toks' = Append(toks, Token("EndElement", Last(stk), FALSE, PlainStart("")))
    /\ stk' = Front(stk)
    /\ open' = Front(open)
    /\ level' = level - 1
    /\ IF streamNode = Nil
       THEN UNCHANGED <<nodes, prev, streamNode, streamNodePrev,
                        streamElementNodeCounter, pc, ret, yielded, rejected,
                        selfFiltered>>
       ELSE /\ streamElementNodeCounter' = streamElementNodeCounter - 1
            /\ IF ~CandidateClosed(streamElementNodeCounter')
               THEN UNCHANGED <<nodes, prev, streamNode, streamNodePrev, pc, ret,
                                yielded, rejected, selfFiltered>>
               ELSE IF \/ streamElementFilter = NoExpr
                       \/ QuerySelector(nodes, streamElementFilter) # Nil
               THEN \* return p.streamNode, nil
                    /\ pc' = "idle"
                    /\ ret' = streamNode
                    /\ yielded' = Append(yielded, streamNode)
                    /\ selfFiltered' =
                          IF Selects(nodes, streamElementFilter, streamNode)
                          THEN selfFiltered \cup {streamNode} ELSE selfFiltered
                    /\ UNCHANGED <<nodes, prev, streamNode, streamNodePrev, rejected>>
               ELSE \* not the target node: clean things up
                    /\ nodes' = RejectCandidate(nodes, streamNode)
                    /\ prev' = streamNodePrev
                    /\ streamNode' = Nil
                    /\ streamNodePrev' = Nil
                    /\ rejected' = rejected \cup {streamNode}
                    /\ UNCHANGED <<pc, ret, yielded, selfFiltered>>
    /\ UNCHANGED <<space2prefix, cvars, err, refParent, refMatch, selfMatched, removed>>

\* a token that builds one childless node and leaves p.level alone:
\* case xml.CharData (cdata: the raw bytes begin with a CDATA marker),
\* case xml.Comment, case xml.Directive
Leaf(type, data, tok) ==
    /\ UNCHANGED <<qvars, rvars>>
    /\ Parsing /\ MoreTokens
    /\ ntok' = ntok + 1
    /\ toks' = Append(toks, tok)
    /\ LET n  == Len(nodes) + 1
           at == Attach(Append(nodes, NewNode(type, data, level)), level, prev, n)
       IN  IF at.panic
           THEN /\ Panic(at.prev)
           ELSE /\ nodes' = at.nodes
                /\ prev' = at.prev
                /\ refParent' = Append(refParent, IF open = <<>> THEN Doc ELSE Last(open))
                /\ UNCHANGED <<level, streamNode, streamNodePrev,
                               streamElementNodeCounter, space2prefix, cvars, pc, ret,
                               err, open, refMatch, yielded, rejected, selfMatched,
                               selfFiltered, removed>>
    /\ UNCHANGED stk

CharData(data, cdata) ==
    Leaf(CharDataType(data, cdata), data, Token("CharData", data, cdata, PlainStart("")))
Comment == Leaf("Comment", "c", Token("Comment", "c", FALSE, PlainStart("")))
Directive == Leaf("Notation", "d", Token("Directive", "d", FALSE, PlainStart("")))

\* case xml.ProcInst
ProcInst(target) ==
    /\ UNCHANGED <<qvars, rvars>>
    /\ Parsing /\ MoreTokens
    /\ ntok' = ntok + 1
    /\ toks' = Append(toks, Token("ProcInst", target, FALSE, PlainStart("")))
    /\ IF prev = Nil
       THEN Panic(prev)
       ELSE LET lvl == IF nodes[prev].Type \in {"Declaration", "ProcessingInstruction"}
                       THEN level ELSE level + 1
                type == IF target = "xml" THEN "Declaration" ELSE "ProcessingInstruction"
                n   == Len(nodes) + 1
                at  == Attach(Append(nodes, NewNode(type, target, lvl)), lvl, prev, n)
            IN  IF at.panic
                THEN /\ pc' = "panic"
                     /\ ret' = Nil
                     /\ level' = lvl
                     /\ prev' = at.prev
                     /\ UNCHANGED <<nodes, streamNode, streamNodePrev,
                                    streamElementNodeCounter, space2prefix, cvars, err,
                                    hvars>>
                ELSE /\ nodes' = at.nodes
                     /\ level' = lvl
                     /\ prev' = n
                     /\ refParent' = Append(refParent,
                                            IF open = <<>> THEN Doc ELSE Last(open))
                     /\ UNCHANGED <<streamNode, streamNodePrev, streamElementNodeCounter,
                                    space2prefix, cvars, pc, ret, err, open, refMatch,
                                    yielded, rejected, selfMatched, selfFiltered, removed>>
    /\ UNCHANGED stk

\* ValidDocument as it would be if any child of the Document made it valid
ValidDocument_AnyChild(ns) ==
    \E d \in Range(Chain(ns, Doc, Len(ns))) : Children(ns, d) # <<>>

\* the post-parse validity check of ParseWithOptions: some child of the
\* Document (or of a sibling of it) is an Element
ValidDocument(ns) ==
    \E d \in Range(Chain(ns, Doc, Len(ns))) :
        \E c \in Range(Children(ns, d)) : ns[c].Type = "Element"

\* TokenError as it would be if ParseWithOptions handed back the tree built so
\* far together with the decoder's error
TokenError_ReturnsPartialTree(e) ==
    /\ UNCHANGED <<qvars, rvars>>
    /\ Parsing
    /\ e = "EOF" => stk = <<>>
    /\ e = "unexpected EOF" => stk # <<>>
    /\ pc' = "done"
    /\ IF mode = "full" /\ e = "EOF"
       THEN IF ValidDocument(nodes)
            THEN ret' = Doc /\ err' = ""
            ELSE ret' = Nil /\ err' = "xmlquery: invalid XML document"
       ELSE ret' = (IF mode = "full" THEN Doc ELSE Nil) /\ err' = e
    /\ toks' = Append(toks, Token("error", e, FALSE, PlainStart("")))
    /\ UNCHANGED <<nodes, pvars, cvars, stk, ntok, hvars>>

\* TokenError as it would be if parse handed back the open candidate
\* together with the error
TokenError_ReturnsCandidate(e) ==
    /\ UNCHANGED <<qvars, rvars>>
    /\ Parsing
    /\ e = "EOF" => stk = <<>>
    /\ e = "unexpected EOF" => stk # <<>>
    /\ pc' = "done"
    /\ IF mode = "full" /\ e = "EOF"
       THEN IF \E d \in Range(Chain(nodes, Doc, Len(nodes))) :
                  \E c \in Range(Children(nodes, d)) : nodes[c].Type = "Element"
            THEN ret' = Doc /\ err' = ""
            ELSE ret' = Nil /\ err' = "xmlquery: invalid XML document"
       ELSE ret' = streamNode /\ err' = e
    /\ toks' = Append(toks, Token("error", e, FALSE, PlainStart("")))
    /\ UNCHANGED <<nodes, pvars, cvars, stk, ntok, hvars>>

\* decoder.Token() returns an error: io.EOF at the end of the input when no
\* element is open, the syntax error "unexpected EOF" when one is, or another
\* syntax error at any point of a malformed input
TokenError(e) ==
    /\ UNCHANGED <<qvars, rvars>>
    /\ Parsing
    /\ e = "EOF" => stk = <<>>
    /\ e = "unexpected EOF" => stk # <<>>
    /\ pc' = "done"
    /\ IF mode = "full" /\ e = "EOF"
       THEN IF ValidDocument(nodes)
            THEN ret' = Doc /\ err' = ""
            ELSE ret' = Nil /\ err' = "xmlquery: invalid XML document"
       ELSE ret' = Nil /\ err' = e
    /\ toks' = Append(toks, Token("error", e, FALSE, PlainStart("")))
    /\ UNCHANGED <<nodes, pvars, cvars, stk, ntok, hvars>>

\* the caller detaches a node of the tree Parse returned
RemoveNode(n) ==
    /\ UNCHANGED <<qvars, rvars>>
    /\ pc \in {"done", "edited"} /\ mode = "full" /\ ret = Doc
    /\ Len(removed) < MaxRemoves
    /\ nodes' = RemoveFromTree(nodes, n)
    /\ removed' = Append(removed, n)
    /\ pc' = "edited"
    /\ UNCHANGED <<pvars, cvars, stk, ntok, toks, ret, err, open, refParent, refMatch,
                   yielded, rejected, selfMatched, selfFiltered>>

\* createParser
CreatedParser ==
    /\ nodes' = <<NewNode("Document", "", 0)>>
    /\ level' = 0
    /\ prev' = Doc
    /\ streamNode' = Nil
    /\ streamNodePrev' = Nil
    /\ streamElementNodeCounter' = 0
    /\ space2prefix' = InitSpace2Prefix
    /\ refParent' = <<Nil>>

\* ParseWithOptions up to its first call of p.parse()
ParseWithOptions(strictOpt) ==
    /\ UNCHANGED <<qvars, rvars>>
    /\ pc = "new"
    /\ CreatedParser
    /\ mode' = "full"
    /\ strict' = strictOpt
    /\ pc' = "parsing"
    /\ UNCHANGED <<streamElementXPath, streamElementFilter, argXPath, argFilter, stk,
                   ntok, toks, ret, err, open, refMatch, yielded, rejected, selfMatched,
                   selfFiltered, removed>>

\* CreateStreamParserWithOptions as it would be if the filter were compiled
\* without looking at the error
CreateStreamParserWithOptions_FilterUnchecked(strictOpt, xpathText, filterText) ==
    /\ UNCHANGED <<qvars, rvars>>
    /\ pc = "new"
    /\ mode' = "stream"
    /\ argXPath' = xpathText
    /\ argFilter' = filterText
    /\ ret' = Nil
    /\ IF CompileFails(xpathText)
       THEN /\ pc' = "failed"
            /\ err' = "invalid streamElementXPath"
            /\ UNCHANGED <<nodes, pvars, streamElementXPath, streamElementFilter, strict,
                           refParent>>
       ELSE /\ CreatedParser
            /\ strict' = strictOpt
            /\ streamElementXPath' = getQuery(xpathText)
            /\ streamElementFilter' = IF filterText = "" THEN NoExpr
                                      ELSE getQuery(filterText)
            /\ pc' = "idle"
            /\ err' = ""
    /\ UNCHANGED <<stk, ntok, toks, open, refMatch, yielded, rejected, selfMatched,
                   selfFiltered, removed>>

\* CreateStreamParserWithOptions; filterText = "" stands for no filter argument
CreateStreamParserWithOptions(strictOpt, xpathText, filterText) ==
    /\ UNCHANGED <<qvars, rvars>>
    /\ pc = "new"
    /\ mode' = "stream"
    /\ argXPath' = xpathText
    /\ argFilter' = filterText
    /\ ret' = Nil
    /\ IF CompileFails(xpathText)
       THEN /\ pc' = "failed"
            /\ err' = "invalid streamElementXPath"
            /\ UNCHANGED <<nodes, pvars, streamElementXPath, streamElementFilter, strict,
                           refParent>>
       ELSE IF filterText # "" /\ CompileFails(filterText)
       THEN /\ pc' = "failed"
            /\ err' = "invalid streamElementFilter"
            /\ UNCHANGED <<nodes, pvars, streamElementXPath, streamElementFilter, strict,
                           refParent>>
       ELSE /\ CreatedParser
            /\ strict' = strictOpt
            /\ streamElementXPath' = getQuery(xpathText)
            /\ streamElementFilter' = IF filterText = "" THEN NoExpr
                                      ELSE getQuery(filterText)
            /\ pc' = "idle"
            /\ err' = ""
    /\ UNCHANGED <<stk, ntok, toks, open, refMatch, yielded, rejected, selfMatched,
                   selfFiltered, removed>>

\* PruneBefore as it would be without the loop over the preceding siblings
PruneBefore_None(ns, n, fuel) == [nodes |-> ns, hang |-> FALSE]

RECURSIVE PruneBefore(_, _, _)
\* for sp.p.streamNode.PrevSibling != nil { RemoveFromTree(sp.p.streamNode.PrevSibling) }
\* hang: the loop cannot end (removing a node without Parent is a no-op)
PruneBefore(ns, n, fuel) ==
    IF ns[n].PrevSibling = Nil THEN [nodes |-> ns, hang |-> FALSE]
    ELSE IF fuel = 0 \/ ns[ns[n].PrevSibling].Parent = Nil
    THEN [nodes |-> ns, hang |-> TRUE]
    ELSE PruneBefore(RemoveFromTree(ns, ns[n].PrevSibling), n, fuel - 1)

\* Read as it would be if the cursor were left inside the subtree it detaches
Read_KeepsCursor ==
    /\ UNCHANGED <<qvars, rvars>>
    /\ pc = "idle"
    /\ ret' = Nil
    /\ streamElementNodeCounter' = 0
    /\ IF streamNode = Nil
       THEN pc' = "parsing" /\ UNCHANGED <<nodes, prev, streamNode, streamNodePrev>>
       ELSE LET pr == PruneBefore(nodes, streamNode, Len(nodes))
            IN  IF pr.hang
                THEN pc' = "hang" /\ UNCHANGED <<nodes, prev, streamNode, streamNodePrev>>
                ELSE /\ pc' = "parsing"
                     /\ prev' = prev
                     /\ nodes' = RemoveFromTree(pr.nodes, streamNode)
                     /\ streamNode' = Nil
                     /\ streamNodePrev' = Nil
    /\ UNCHANGED <<level, space2prefix, cvars, stk, ntok, toks, err, hvars>>

\* Read as it would be if the parser depth, like the stream counter, began
\* at 0 in every call of parse()
Read_ResetsDepth ==
    /\ UNCHANGED <<qvars, rvars>>
    /\ pc = "idle"
    /\ ret' = Nil
    /\ streamElementNodeCounter' = 0
    /\ level' = 0
    /\ IF streamNode = Nil
       THEN pc' = "parsing" /\ UNCHANGED <<nodes, prev, streamNode, streamNodePrev>>
       ELSE LET pr == PruneBefore(nodes, streamNode, Len(nodes))
            IN  IF pr.hang
                THEN pc' = "hang" /\ UNCHANGED <<nodes, prev, streamNode, streamNodePrev>>
                ELSE /\ pc' = "parsing"
                     /\ prev' = pr.nodes[streamNode].Parent
                     /\ nodes' = RemoveFromTree(pr.nodes, streamNode)
                     /\ streamNode' = Nil
                     /\ streamNodePrev' = Nil
    /\ UNCHANGED <<space2prefix, cvars, stk, ntok, toks, err, hvars>>

\* StreamParser.Read up to its call of p.parse()
Read ==
    /\ UNCHANGED <<qvars, rvars>>
    /\ pc = "idle"
    /\ ret' = Nil
    /\ streamElementNodeCounter' = 0
    /\ IF streamNode = Nil
       THEN pc' = "parsing" /\ UNCHANGED <<nodes, prev, streamNode, streamNodePrev>>
       ELSE LET pr == PruneBefore(nodes, streamNode, Len(nodes))
            IN  IF pr.hang
                THEN pc' = "hang" /\ UNCHANGED <<nodes, prev, streamNode, streamNodePrev>>
                ELSE /\ pc' = "parsing"
                     /\ prev' = pr.nodes[streamNode].Parent
                     /\ nodes' = RemoveFromTree(pr.nodes, streamNode)
                     /\ streamNode' = Nil
                     /\ streamNodePrev' = Nil
    /\ UNCHANGED <<level, space2prefix, cvars, stk, ntok, toks, err, hvars>>

\* ------------------------------------------------------- specifications
Init ==
    /\ nodes = <<>>
    /\ level = 0
    /\ prev = Nil
    /\ streamElementXPath = NoExpr
    /\ streamElementFilter = NoExpr
    /\ streamNode = Nil
    /\ streamNodePrev = Nil
    /\ streamElementNodeCounter = 0
    /\ space2prefix = InitSpace2Prefix
    /\ strict = TRUE
    /\ stk = <<>>
    /\ ntok = 0
    /\ pc = "new"
    /\ ret = Nil
    /\ err = ""
    /\ argXPath = ""
    /\ argFilter = ""
    /\ mode = "full"
    /\ open = <<>>
    /\ refParent = <<>>
    /\ refMatch = <<>>
    /\ yielded = <<>>
    /\ rejected = {}
    /\ selfMatched = {}
    /\ selfFiltered = {}
    /\ toks = <<>>
    /\ removed = <<>>
    /\ DisableSelectorCache = FALSE
    /\ SelectorCacheMaxEntries = DefaultMaxEntries
    /\ cache = [made |-> FALSE, MaxEntries |-> 0, ll |-> <<>>]
    /\ cacheMutex = 0
    /\ qpc = [p \in {1, 2} |-> "idle"]
    /\ qkey = [p \in {1, 2} |-> ""]
    /\ qval = [p \in {1, 2} |-> 0]
    /\ qret = [p \in {1, 2} |-> 0]
    /\ compiled = <<>>
    /\ evicted = <<>>
    /\ recent = <<>>
    /\ crCache = [i \in 1..cacheCap |-> NUL]
    /\ cacheLen = 0
    /\ caching = FALSE
    /\ delivered = <<>>
    /\ rops = 0

\* the (streamElementXPath, streamElementFilter) arguments explored; the
\* last three do not compile
StreamArgs ==
    { <<"/A/B", "">>, <<"//B", "">>, <<"/A[B]", "">>, <<"/A/B[text()='x']", "">>,
      <<"/A/B", "/A/B[text()='x']">>, <<"//B", "//B[text()='x']">>,
      <<"/A/B[not(text()='x')]", "">>,
      <<BadText, "">>, <<"/A/B", BadText>>, <<BadText, BadText>> }

\* Either a full parse of any token sequence up to MaxTokens tokens, or a
\* stream parser reading any sequence of start tags, end tags, text and
\* processing instructions up to MaxStreamTokens tokens.
Next ==
    \/ ParseWithOptions(TRUE)
    \/ \E a \in StreamArgs : CreateStreamParserWithOptions(TRUE, a[1], a[2])
    \/ Read
    \/ \E name \in Names : StartElement(PlainStart(name))
    \/ EndElement
    \/ CharData("x", FALSE)
    \/ mode = "full" /\ CharData("y", FALSE)
    \/ mode = "full" /\ Comment
    \/ mode = "full" /\ Directive
    \/ ProcInst("p")
    \/ mode = "full" /\ ProcInst("xml")
    \/ \E e \in {"EOF", "unexpected EOF", "syntax"} : TokenError(e)
    \/ \E n \in DOMAIN nodes : RemoveNode(n)

Spec == Init /\ [][Next]_vars

\* ------------------------------------------- documents with namespaces
URI == "u"

\* an attribute as written: prefix, local name, value
SrcAttr(prefix, local, value) == [space |-> prefix, local |-> local, value |-> value]

\* a start tag as written: prefix, local name, attributes
SrcTag(prefix, name, attr) == [written |-> prefix, name |-> name, attr |-> attr]

\* <A id="1" k="2">, <p:A xmlns:p="u">, <B xmlns="u">, <p:B>,
\* <A xmlns:p="u" xmlns="u">, <A xmlns="u" xmlns:p="u">, <A>,
\* <q:B xmlns:q="u">, <A xmlns:q="http://www.w3.org/XML/1998/namespace">,
\* <p:A p:k="1" xmlns:p="u">
SrcTags ==
    { SrcTag("", "A", <<SrcAttr("", "id", "1"), SrcAttr("", "k", "2")>>),
      SrcTag("p", "A", <<SrcAttr("xmlns", "p", URI)>>),
      SrcTag("", "B", <<SrcAttr("", "xmlns", URI)>>),
      SrcTag("p", "B", <<>>),
      SrcTag("", "A", <<SrcAttr("xmlns", "p", URI), SrcAttr("", "xmlns", URI)>>),
      SrcTag("", "A", <<SrcAttr("", "xmlns", URI), SrcAttr("xmlns", "p", URI)>>),
      SrcTag("", "A", <<>>),
      SrcTag("q", "B", <<SrcAttr("xmlns", "q", URI)>>),
      SrcTag("", "A", <<SrcAttr("xmlns", "q", XMLNamespace)>>),
      SrcTag("p", "A", <<SrcAttr("p", "k", "1"), SrcAttr("xmlns", "p", URI)>>) }

RECURSIVE OpenTags(_, _)
\* the start tags of ts that have no end tag yet, outermost first
OpenTags(ts, st) ==
    IF ts = <<>> THEN st
    ELSE OpenTags(Tail(ts),
                  CASE Head(ts).kind = "StartElement" -> Append(st, Head(ts).tag)
                    [] Head(ts).kind = "EndElement"   -> Front(st)
                    [] OTHER                          -> st)

RECURSIVE Declarations(_)
\* the attributes of a sequence of tags, in order
Declarations(tags) ==
    IF tags = <<>> THEN <<>> ELSE Head(tags).attr \o Declarations(Tail(tags))

\* the decoder's translation of a written prefix: the URI of the innermost
\* declaration in scope; an undeclared prefix is left as it is, and an
\* unprefixed element name without default declaration has no namespace
Translate(prefix, tags) ==
    LET ds == SelectSeq(Declarations(tags),
                        LAMBDA a : IF prefix = ""
                                   THEN a.space = "" /\ a.local = "xmlns"
                                   ELSE a.space = "xmlns" /\ a.local = prefix)
    IN  IF ds = <<>> THEN prefix ELSE Last(ds).value

\* the xml.StartElement the decoder delivers for a written start tag
Decode(src) ==
    LET scope == Append(OpenTags(toks, <<>>), src)
    IN  [name    |-> src.name,
         space   |-> Translate(src.written, scope),
         attr    |-> [i \in DOMAIN src.attr |->
                         IF src.attr[i].space \in {"", "xmlns"} THEN src.attr[i]
                         ELSE [src.attr[i] EXCEPT
                                  !.space = Translate(src.attr[i].space, scope)]],
         written |-> src.written]

\* A full parse, strict or tolerant, of any sequence of up to MaxTokens
\* start tags of SrcTags, end tags, text, CDATA sections and processing
\* instructions.
NextDoc ==
    \/ \E b \in BOOLEAN : ParseWithOptions(b)
    \/ \E src \in SrcTags : StartElement(Decode(src))
    \/ EndElement
    \/ CharData("x", FALSE)
    \/ CharData("x", TRUE)
    \/ CharData("![CDATA[x", FALSE)
    \/ ProcInst("p")
    \/ \E e \in {"EOF", "unexpected EOF", "syntax"} : TokenError(e)

SpecDoc == Init /\ [][NextDoc]_vars

\* -------------------------------------------------------- CachedReader
\* the buffers a Read can fill: up to MaxRead bytes
ReadData == UNION {[1..k -> Bytes] : k \in 0..MaxRead}

\* the slice c.cache[:c.cacheLen]
Cache == SubSeq(crCache, 1, cacheLen)

RECURSIVE CopyLoop(_, _, _, _)
\* for i := 0; i < n; i++ { c.cache[c.cacheLen] = p[i]; c.cacheLen++;
\*                          if c.cacheLen >= c.cacheCap { break } }
CopyLoop(arr, len, p, i) ==
    IF i > Len(p) THEN [cache |-> arr, cacheLen |-> len]
    ELSE LET arr1 == [arr EXCEPT ![len + 1] = p[i]]
         IN  IF len + 1 >= cacheCap
             THEN [cache |-> arr1, cacheLen |-> len + 1]
             ELSE CopyLoop(arr1, len + 1, p, i + 1)

ReaderCall ==
    /\ rops < MaxReaderOps
    /\ rops' = rops + 1
    /\ UNCHANGED <<dvars, qvars>>

\* func (c *CachedReader) StartCaching()
StartCaching ==
    /\ ReaderCall
    /\ cacheLen' = 0
    /\ caching' = TRUE
    /\ delivered' = <<>>
    /\ UNCHANGED crCache

\* func (c *CachedReader) StopCaching()
StopCaching ==
    /\ ReaderCall
    /\ caching' = FALSE
    /\ UNCHANGED <<crCache, cacheLen, delivered>>

\* func (c *CachedReader) ReadByte(): c.buffer.ReadByte() returns the byte b,
\* or an error and no byte (failed)
ReadByte(b, failed) ==
    /\ ReaderCall
    /\ UNCHANGED caching
    /\ IF ~caching \/ failed
       THEN UNCHANGED <<crCache, cacheLen, delivered>>
       ELSE /\ delivered' = Append(delivered, b)
            /\ IF cacheLen < cacheCap
               THEN /\ crCache' = [crCache EXCEPT ![cacheLen + 1] = b]
                    /\ cacheLen' = cacheLen + 1
               ELSE UNCHANGED <<crCache, cacheLen>>

\* func (c *CachedReader) Read(p): c.buffer.Read(p) stores the bytes data in
\* p and returns their number, with an error or without (failed); a Reader
\* may return bytes and an error from one call
ReadBuf(data, failed) ==
    /\ ReaderCall
    /\ UNCHANGED caching
    /\ ~failed => data # <<>>
    /\ delivered' = IF caching THEN delivered \o data ELSE delivered
    /\ IF ~failed /\ caching /\ cacheLen < cacheCap
       THEN LET r == CopyLoop(crCache, cacheLen, data, 1)
            IN  crCache' = r.cache /\ cacheLen' = r.cacheLen
       ELSE UNCHANGED <<crCache, cacheLen>>

\* Any sequence of up to MaxReaderOps calls on one CachedReader.
NextReader ==
    \/ StartCaching
    \/ StopCaching
    \/ \E b \in Bytes : ReadByte(b, FALSE)
    \/ ReadByte(NUL, TRUE)
    \/ \E data \in ReadData : \E failed \in BOOLEAN : ReadBuf(data, failed)

SpecReader == Init /\ [][NextReader]_vars

\* ------------------------------------------------------ the selector cache
\* the goroutines that call getQuery
Procs == {1, 2}
\* the expression texts they ask for; BadText does not compile
Keys == {"/A", "/A/B", "//B", BadText}

NoCache == [made |-> FALSE, MaxEntries |-> 0, ll |-> <<>>]

\* lru.New(maxEntries); ll holds the entries, most recently used first
lruNew(maxEntries) == [made |-> TRUE, MaxEntries |-> maxEntries, ll |-> <<>>]

lruHas(c, k) == \E i \in DOMAIN c.ll : c.ll[i].key = k

lruIndex(c, k) == CHOOSE i \in DOMAIN c.ll : c.ll[i].key = k

\* the list with entry i moved to the front
MoveToFront(ll, i) ==
    <<ll[i]>> \o SubSeq(ll, 1, i - 1) \o SubSeq(ll, i + 1, Len(ll))

\* (*lru.Cache).Get on a key that is present: the cache afterwards
lruGet(c, k) == [c EXCEPT !.ll = MoveToFront(c.ll, lruIndex(c, k))]

\* (*lru.Cache).Add: a present key is refreshed, a new one goes to the front
\* and the oldest entry is removed when MaxEntries (if not 0) is exceeded
lruAdd(c, k, v) ==
    IF lruHas(c, k)
    THEN [c EXCEPT !.ll = MoveToFront([c.ll EXCEPT ![lruIndex(c, k)].value = v],
                                      lruIndex(c, k))]
    ELSE LET ll == <<[key |-> k, value |-> v]>> \o c.ll
         IN  IF c.MaxEntries # 0 /\ Len(ll) > c.MaxEntries
             THEN [c EXCEPT !.ll = Front(ll)]
             ELSE [c EXCEPT !.ll = ll]

\* the keys of a cache, most recently used first
lruKeys(c) == [i \in DOMAIN c.ll |-> c.ll[i].key]

AllIdle == \A p \in Procs : qpc[p] = "idle"

\* a goroutine enters getQuery(expr, opts)
GetQueryCall(p, k) ==
    /\ qpc[p] = "idle"
    /\ Len(compiled) < MaxCompiles
    /\ qpc' = [qpc EXCEPT ![p] = "check"]
    /\ qkey' = [qkey EXCEPT ![p] = k]
    /\ qval' = [qval EXCEPT ![p] = 0]
    /\ qret' = [qret EXCEPT ![p] = 0]
    /\ UNCHANGED <<DisableSelectorCache, SelectorCacheMaxEntries, cache, cacheMutex,
                   compiled, evicted, recent, dvars, rvars>>

\* if DisableSelectorCache || SelectorCacheMaxEntries <= 0 { return xpath.CompileWithOptions }
\* otherwise cacheOnce.Do(func() { cache = lru.New(SelectorCacheMaxEntries) })
GetQueryCheck(p) ==
    /\ qpc[p] = "check"
    /\ IF DisableSelectorCache \/ SelectorCacheMaxEntries <= 0
       THEN /\ qpc' = [qpc EXCEPT ![p] = "idle"]
            /\ IF CompileFails(qkey[p])
               THEN qret' = [qret EXCEPT ![p] = 0] /\ UNCHANGED compiled
               ELSE /\ compiled' = Append(compiled, qkey[p])
                    /\ qret' = [qret EXCEPT ![p] = Len(compiled) + 1]
            /\ UNCHANGED cache
       ELSE /\ qpc' = [qpc EXCEPT ![p] = "lock"]
            /\ cache' = IF cache.made THEN cache ELSE lruNew(SelectorCacheMaxEntries)
            /\ UNCHANGED <<qret, compiled>>
    /\ UNCHANGED <<DisableSelectorCache, SelectorCacheMaxEntries, cacheMutex, qkey, qval,
                   evicted, recent, dvars, rvars>>

\* GetQueryLock as it would be if the mutex were not taken
GetQueryLock_NoMutex(p) ==
    /\ qpc[p] = "lock"
    /\ qpc' = [qpc EXCEPT ![p] = "get"]
    /\ UNCHANGED <<DisableSelectorCache, SelectorCacheMaxEntries, cache, cacheMutex, qkey,
                   qval, qret, compiled, evicted, recent, dvars, rvars>>

\* cacheMutex.Lock()
GetQueryLock(p) ==
    /\ qpc[p] = "lock"
    /\ cacheMutex = 0
    /\ cacheMutex' = p
    /\ qpc' = [qpc EXCEPT ![p] = "get"]
    /\ UNCHANGED <<DisableSelectorCache, SelectorCacheMaxEntries, cache, qkey, qval,
                   qret, compiled, evicted, recent, dvars, rvars>>

\* if v, ok := cache.Get(key); ok { return v, nil }
GetQueryLookup(p) ==
    /\ qpc[p] = "get"
    /\ IF lruHas(cache, qkey[p])
       THEN /\ qret' = [qret EXCEPT ![p] = cache.ll[lruIndex(cache, qkey[p])].value]
            /\ cache' = lruGet(cache, qkey[p])
            /\ recent' = <<qkey[p]>> \o SelectSeq(recent, LAMBDA k : k # qkey[p])
            /\ qpc' = [qpc EXCEPT ![p] = "unlock"]
       ELSE /\ qpc' = [qpc EXCEPT ![p] = "compile"]
            /\ UNCHANGED <<qret, cache, recent>>
    /\ UNCHANGED <<DisableSelectorCache, SelectorCacheMaxEntries, cacheMutex, qkey, qval,
                   compiled, evicted, dvars, rvars>>

\* v, err := xpath.CompileWithOptions(expr, opts); if err != nil { return nil, err }
GetQueryCompile(p) ==
    /\ qpc[p] = "compile"
    /\ IF CompileFails(qkey[p])
       THEN /\ qpc' = [qpc EXCEPT ![p] = "unlock"]
            /\ UNCHANGED <<qval, compiled>>
       ELSE /\ compiled' = Append(compiled, qkey[p])
            /\ qval' = [qval EXCEPT ![p] = Len(compiled) + 1]
            /\ qpc' = [qpc EXCEPT ![p] = "add"]
    /\ UNCHANGED <<DisableSelectorCache, SelectorCacheMaxEntries, cache, cacheMutex, qkey,
                   qret, evicted, recent, dvars, rvars>>

\* cache.Add(key, v); return v, nil
GetQueryAdd(p) ==
    /\ qpc[p] = "add"
    /\ cache' = lruAdd(cache, qkey[p], qval[p])
    /\ qret' = [qret EXCEPT ![p] = qval[p]]
    /\ evicted' = evicted \o SelectSeq(lruKeys(cache),
                                       LAMBDA k : k \notin Range(lruKeys(cache')))
    /\ recent' = <<qkey[p]>> \o SelectSeq(recent, LAMBDA k : k # qkey[p]
                                                       /\ k \in Range(lruKeys(cache')))
    /\ qpc' = [qpc EXCEPT ![p] = "unlock"]
    /\ UNCHANGED <<DisableSelectorCache, SelectorCacheMaxEntries, cacheMutex, qkey, qval,
                   compiled, dvars, rvars>>

\* defer cacheMutex.Unlock()
GetQueryUnlock(p) ==
    /\ qpc[p] = "unlock"
    /\ cacheMutex' = IF cacheMutex = p THEN 0 ELSE cacheMutex
    /\ qpc' = [qpc EXCEPT ![p] = "idle"]
    /\ UNCHANGED <<DisableSelectorCache, SelectorCacheMaxEntries, cache, qkey, qval,
                   qret, compiled, evicted, recent, dvars, rvars>>

\* the program assigns SelectorCacheMaxEntries between getQuery calls
SetSelectorCacheMaxEntries(n) ==
    /\ AllIdle
    /\ SelectorCacheMaxEntries # n
    /\ SelectorCacheMaxEntries' = n
    /\ UNCHANGED <<DisableSelectorCache, cache, cacheMutex, qpc, qkey, qval, qret,
                   compiled, evicted, recent, dvars, rvars>>

\* the program assigns DisableSelectorCache between getQuery calls
SetDisableSelectorCache(b) ==
    /\ AllIdle
    /\ DisableSelectorCache # b
    /\ DisableSelectorCache' = b
    /\ UNCHANGED <<SelectorCacheMaxEntries, cache, cacheMutex, qpc, qkey, qval, qret,
                   compiled, evicted, recent, dvars, rvars>>

\* Two goroutines call getQuery for any keys, in any interleaving, up to
\* MaxCompiles compilations; between calls the program may change the two
\* package variables.
NextCache ==
    \/ \E p \in Procs : \E k \in Keys : GetQueryCall(p, k)
    \/ \E p \in Procs : GetQueryCheck(p)
    \/ \E p \in Procs : GetQueryLock(p)
    \/ \E p \in Procs : GetQueryLookup(p)
    \/ \E p \in Procs : GetQueryCompile(p)
    \/ \E p \in Procs : GetQueryAdd(p)
    \/ \E p \in Procs : GetQueryUnlock(p)
    \/ \E n \in MaxEntriesValues : SetSelectorCacheMaxEntries(n)
    \/ \E b \in BOOLEAN : SetDisableSelectorCache(b)

SpecCache == Init /\ [][NextCache]_vars

\* ------------------------------------------------------------ the claims
Built == pc \notin {"new", "failed"}

RECURSIVE RefAncestors(_, _, _)
\* the ancestors an ancestor-stack builder gives node n
RefAncestors(rp, n, fuel) ==
    IF n = Nil \/ fuel = 0 \/ rp[n] = Nil THEN {}
    ELSE {rp[n]} \cup RefAncestors(rp, rp[n], fuel - 1)

\* no element matching the target by ancestry lies inside another one
NotNested ==
    \A n \in Range(refMatch) :
        RefAncestors(refParent, n, Len(refParent)) \cap Range(refMatch) = {}

\* the document has exactly one top-level element
SingleRoot ==
    Cardinality({n \in DOMAIN nodes :
                    nodes[n].Type = "Element" /\ refParent[n] = Doc}) = 1

\* C1: streaming with a name/ancestry target and no filter, on a single-rooted
\* document whose matches are not nested: each Read that returns a node
\* returns the next match in document order (so the nodes returned so far are
\* exactly the matches seen so far), and the Read that returns io.EOF returns
\* no node after all matches have been returned.
C1_ReadsYieldEachMatchInOrder ==
    (mode = "stream" /\ streamElementXPath.pk = "none" /\ streamElementFilter = NoExpr
        /\ NotNested /\ SingleRoot) =>
        /\ (pc = "idle" /\ ret # Nil => yielded = refMatch /\ ret = Last(yielded))
        /\ (pc = "done" /\ err = "EOF" => yielded = refMatch /\ ret = Nil)

\* C2: every node Read returns was itself selected by the target expression
\* on the tree as built when its start tag was processed.
C2_YieldedNodeIsSelectedByTarget ==
    mode = "stream" /\ ret # Nil => ret \in selfMatched

\* the next step processes the end tag of the open candidate (by the decoder's
\* nesting) and the filter selects nothing in the tree
FilterFailsAtEndTag ==
    /\ pc = "parsing"
    /\ streamNode # Nil
    /\ streamElementFilter # NoExpr
    /\ open # <<>> /\ Last(open) = streamNode
    /\ Len(stk') < Len(stk)
    /\ QuerySelector(nodes, streamElementFilter) = Nil

C4_YieldedNodeIsSelectedByFilter ==
    mode = "stream" /\ ret # Nil /\ streamElementFilter # NoExpr => ret \in selfFiltered

RECURSIVE Before(_, _, _)
\* the siblings that precede n
Before(ns, n, fuel) ==
    IF ns[n].PrevSibling = Nil \/ fuel = 0 THEN {}
    ELSE {ns[n].PrevSibling} \cup Before(ns, ns[n].PrevSibling, fuel - 1)

Detached(ns, n) ==
    /\ ns[n].Parent = Nil /\ ns[n].PrevSibling = Nil /\ ns[n].NextSibling = Nil
    /\ n \notin Reachable(ns)

\* the step is the Read call that follows a yield
ReadAfterYield == pc = "idle" /\ streamNode # Nil /\ pc' # "idle"

\* C5: the Read call that follows a yield consumes no token before it has
\* detached the node returned last and every sibling preceding it and has set
\* the cursor to that node's former parent, which is left without children;
\* and a node returned earlier is never reachable from the Document afterwards.
C5_PruneOnNextRead ==
    /\ [][ReadAfterYield =>
            /\ ntok' = ntok /\ pc' = "parsing"
            /\ streamNode = ret
            /\ nodes[streamNode].Parent # Nil
            /\ prev' = nodes[streamNode].Parent
            /\ nodes'[prev'].FirstChild = Nil /\ nodes'[prev'].LastChild = Nil
            /\ prev' \in Reachable(nodes')
            /\ \A n \in Before(nodes, streamNode, Len(nodes)) \cup {streamNode} :
                   Detached(nodes', n)
            /\ streamNode' = Nil]_vars
    /\ [](\A i \in DOMAIN yielded :
             yielded[i] # streamNode => yielded[i] \notin Reachable(nodes))

\* a second Read has returned after the first yield and a text node that
\* preceded it were pruned
C5_Witness ==
    /\ pc = "idle" /\ Len(yielded) = 2 /\ ret = yielded[2]
    /\ Detached(nodes, yielded[1])
    /\ \E n \in DOMAIN nodes :
          /\ nodes[n].Type = "Text" /\ n < yielded[1]
          /\ refParent[n] = refParent[yielded[1]]
          /\ Detached(nodes, n)

\* the step is the decoder's error report while a candidate is open
ErrorInsideCandidate ==
    /\ pc = "parsing" /\ mode = "stream" /\ streamNode # Nil
    /\ ntok' = ntok /\ pc' # pc

\* C6: when the decoder reports the end of the input or another error while
\* a candidate is open, Read returns that error and no node; a node Read
\* returns is never an element whose end tag is still to come.
C6_ErrorInsideCandidateReturnsNoNode ==
    /\ [][ErrorInsideCandidate =>
            /\ pc' = "done" /\ ret' = Nil
            /\ err' \in {"unexpected EOF", "syntax"}
            /\ yielded' = yielded]_vars
    /\ [](mode = "stream" /\ ret # Nil => ret \notin Range(open) /\ err = "")

\* Read returned the end-of-input error with its candidate still open
C6_Witness ==
    /\ mode = "stream" /\ pc = "done" /\ err = "unexpected EOF" /\ ret = Nil
    /\ streamNode # Nil /\ streamNode \in Range(open)
    /\ nodes[streamNode].FirstChild # Nil

\* C7: a target or filter text that does not compile makes the constructor
\* fail with the error naming it (the target first), with no parser built and
\* no token consumed; when both compile the parser holds the compiled
\* expressions and no Read ever reports a compile error.
C7_CompileErrorsAtConstruction ==
    (mode = "stream" /\ pc # "new") =>
        IF CompileFails(argXPath)
        THEN pc = "failed" /\ err = "invalid streamElementXPath"
             /\ nodes = <<>> /\ ntok = 0 /\ ret = Nil
        ELSE IF argFilter # "" /\ CompileFails(argFilter)
        THEN pc = "failed" /\ err = "invalid streamElementFilter"
             /\ nodes = <<>> /\ ntok = 0 /\ ret = Nil
        ELSE /\ pc # "failed"
             /\ err \in {"", "EOF", "unexpected EOF", "syntax"}
             /\ streamElementXPath # NoExpr
             /\ (argFilter # "" <=> streamElementFilter # NoExpr)

\* the constructor failed on the filter text, the target text being valid
C7_Witness ==
    /\ pc = "failed" /\ err = "invalid streamElementFilter"
    /\ ~CompileFails(argXPath) /\ CompileFails(argFilter)

\* C8: in a full parse every node has the parent an ancestor-stack builder
\* gives it (the innermost open element, or the Document) and was appended
\* as that parent's last child, so the two trees are the same.
C8_SameTreeAsAncestorStackBuilder ==
    (mode = "full" /\ pc \in {"parsing", "done"}) =>
        \A n \in DOMAIN nodes \ {Doc} :
            /\ nodes[n].Parent = refParent[n]
            /\ n \in Range(Children(nodes, refParent[n]))
            /\ nodes[n].NextSibling # Nil => nodes[n].NextSibling > n

\* C9: after a full parse that returned the tree, every node's level is the
\* number of Parent steps from it up to the Document.
C9_LevelIsDepth ==
    (mode = "full" /\ pc = "done" /\ ret = Doc) =>
        \A n \in Reachable(nodes) : ParentSteps(nodes, n, Len(nodes)) = nodes[n].level

\* C10: in every state the sibling links are symmetric, the nodes of one
\* sibling chain have the same Parent, and each node's FirstChild and
\* LastChild are the two ends of the chain of the nodes whose Parent it is.
C10_LinksConsistent ==
    Built =>
        \A n \in DOMAIN nodes :
            /\ nodes[n].PrevSibling # Nil =>
                  /\ nodes[nodes[n].PrevSibling].NextSibling = n
                  /\ nodes[nodes[n].PrevSibling].Parent = nodes[n].Parent
            /\ nodes[n].NextSibling # Nil =>
                  /\ nodes[nodes[n].NextSibling].PrevSibling = n
                  /\ nodes[nodes[n].NextSibling].Parent = nodes[n].Parent
            /\ (nodes[n].FirstChild = Nil) <=> (nodes[n].LastChild = Nil)
            /\ nodes[n].FirstChild # Nil => nodes[nodes[n].FirstChild].PrevSibling = Nil
            /\ nodes[n].LastChild # Nil => nodes[nodes[n].LastChild].NextSibling = Nil
            /\ Range(Children(nodes, n)) = {c \in DOMAIN nodes : nodes[c].Parent = n}
            /\ nodes[n].LastChild # Nil =>
                  nodes[n].LastChild = Last(Children(nodes, n))

\* a stream parser that has rejected a candidate, pruned a returned one and
\* attached a further node
C10_Witness ==
    /\ mode = "stream" /\ pc = "parsing"
    /\ rejected # {} /\ yielded # <<>> /\ streamNode = Nil
    /\ Len(nodes) > yielded[Len(yielded)]
    /\ \E r \in rejected : Len(nodes) > r

\* ---------------------------------------------------------------- C11
\* the start tags the decoder delivered, in order
StartTags == SelectSeq(toks, LAMBDA t : t.kind = "StartElement")

\* the Element nodes of the tree under the Document, in order of creation
ElementsOf(ns) ==
    SelectSeq([i \in 1..Len(ns) |-> i],
              LAMBDA n : ns[n].Type = "Element" /\ n \in Reachable(ns))

ParsedOK == pc = "done" /\ mode = "full" /\ ret = Doc

\* C11: a successful full parse of a token stream with N start tags returns a
\* tree with exactly N Element nodes, the i-th carrying the i-th start tag's
\* local name and its attributes (local name and value) in source order.
C11_OneElementPerStartTag ==
    ParsedOK =>
        LET E == ElementsOf(nodes)
            T == StartTags
        IN  /\ Len(E) = Len(T)
            /\ \A i \in DOMAIN E :
                  /\ nodes[E[i]].Data = T[i].data
                  /\ [j \in DOMAIN nodes[E[i]].Attr |->
                         <<nodes[E[i]].Attr[j].Local, nodes[E[i]].Attr[j].Value>>]
                     = [j \in DOMAIN T[i].tag.attr |->
                         <<T[i].tag.attr[j].local, T[i].tag.attr[j].value>>]

\* a parse of two or more start tags, one of them with two attributes, succeeded
C11_Witness ==
    /\ ParsedOK
    /\ Len(StartTags) >= 2
    /\ \E i \in DOMAIN StartTags : Len(StartTags[i].tag.attr) = 2

\* ---------------------------------------------------------------- C12
\* the step is a RemoveFromTree(n) call of the caller
Detaches(n) == removed' = Append(removed, n)

\* n and everything below it
Subtree(ns, n) == Range(Preorder(ns, n, Len(ns)))

\* C12: detaching a node that has a parent removes exactly that node from the
\* parent's child list and keeps the order of the other children, clears the
\* node's Parent / PrevSibling / NextSibling, leaves the node's own children
\* attached to it, and changes no node outside the parent's child list.
C12_DetachRemovesExactlyTheNode ==
    [][\A n \in DOMAIN nodes :
          (Detaches(n) /\ nodes[n].Parent # Nil) =>
              LET p == nodes[n].Parent
              IN  /\ Children(nodes', p)
                       = SelectSeq(Children(nodes, p), LAMBDA c : c # n)
                  /\ \A c \in Range(Children(nodes', p)) : nodes'[c].Parent = p
                  /\ nodes'[n].Parent = Nil
                  /\ nodes'[n].PrevSibling = Nil
                  /\ nodes'[n].NextSibling = Nil
                  /\ Children(nodes', n) = Children(nodes, n)
                  /\ \A d \in Subtree(nodes, n) \ {n} : nodes'[d] = nodes[d]
                  /\ \A m \in DOMAIN nodes :
                        m \notin Range(Children(nodes, p)) \cup {p} => nodes'[m] = nodes[m]
                  /\ nodes'[p].Parent = nodes[p].Parent
                  /\ nodes'[p].PrevSibling = nodes[p].PrevSibling
                  /\ nodes'[p].NextSibling = nodes[p].NextSibling
      ]_vars

\* the first node detached was a middle child: a child created before it and
\* one created after it are still children of its former parent
C12_Witness ==
    /\ removed # <<>>
    /\ nodes[removed[1]].Parent = Nil
    /\ \E p \in DOMAIN nodes : \E a, b \in Range(Children(nodes, p)) :
          /\ refParent[removed[1]] = p
          /\ a < removed[1] /\ removed[1] < b
          /\ nodes[a].NextSibling = b

\* ---------------------------------------------------------------- C13
\* C13: detaching the Document node (a node without Parent) changes no link of
\* any node, the first time and every time it is repeated.
C13_DetachRootIsNoOp ==
    [][\A n \in DOMAIN nodes :
          (Detaches(n) /\ nodes[n].Parent = Nil) => nodes' = nodes]_vars

\* the caller detached the Document node twice
C13_Witness == removed = <<Doc, Doc>> /\ nodes[Doc].FirstChild # Nil

\* ---------------------------------------------------------------- C14
\* the input does not begin with an <?xml ...?> declaration
NoLeadingDeclaration ==
    toks # <<>> /\ ~(toks[1].kind = "ProcInst" /\ toks[1].data = "xml")

\* the full parse ran to the end of the input (io.EOF)
ReadToEnd ==
    pc = "done" /\ mode = "full" /\ err \in {"", "xmlquery: invalid XML document"}

\* C14: an input without leading declaration and with at least one element
\* parses successfully, the Document's first child is a Declaration "xml"
\* with the single attribute version="1.0", and the root element is a later
\* sibling of it.
C14_DeclarationSynthesized ==
    (ReadToEnd /\ NoLeadingDeclaration /\ StartTags # <<>>) =>
        /\ ret = Doc /\ err = ""
        /\ LET d == nodes[Doc].FirstChild
           IN  /\ d # Nil
               /\ nodes[d].Type = "Declaration"
               /\ nodes[d].Data = "xml"
               /\ nodes[d].Attr = <<[Space |-> "", Local |-> "version", Value |-> "1.0",
                                     NamespaceURI |-> ""]>>
               /\ ElementsOf(nodes) # <<>>
               /\ ElementsOf(nodes)[1] \in
                     Range(Chain(nodes, nodes[d].NextSibling, Len(nodes)))

\* ---------------------------------------------------------------- C15
\* C15: a full parse returns a tree only if an Element node was built; when
\* the input ends normally without any start tag it returns no tree and the
\* error "xmlquery: invalid XML document".
C15_NoElementIsInvalidDocument ==
    (pc = "done" /\ mode = "full") =>
        /\ ret # Nil =>
              /\ ret = Doc
              /\ \E n \in Reachable(nodes) : nodes[n].Type = "Element"
        /\ (ReadToEnd /\ StartTags = <<>>) =>
              /\ ret = Nil
              /\ err = "xmlquery: invalid XML document"

\* an input of two or more tokens, none of them a start tag, was read to its
\* end (the last entry of toks is the io.EOF)
C15_Witness ==
    ReadToEnd /\ StartTags = <<>> /\ Len(toks) >= 3 /\ nodes[Doc].FirstChild # Nil

\* ---------------------------------------------------------------- C16
\* the decoder ended the parse with an error other than io.EOF
DecoderFailed ==
    toks # <<>> /\ Last(toks).kind = "error" /\ Last(toks).data # "EOF"

\* C16: when the decoder reports an error other than io.EOF, at any point of
\* the input, a full parse returns that very error and no tree.
C16_DecoderErrorReturnsNoTree ==
    (pc = "done" /\ mode = "full" /\ DecoderFailed) =>
        /\ ret = Nil
        /\ err = Last(toks).data

\* the decoder failed after an element with a child had been built
C16_Witness ==
    /\ pc = "done" /\ mode = "full" /\ DecoderFailed
    /\ \E n \in Reachable(nodes) : nodes[n].Type = "Element" /\ nodes[n].FirstChild # Nil

\* ---------------------------------------------------------------- C17
\* the step delivers a start tag whose name carries a namespace that the
\* scope table, after the tag's own declarations, does not bind
UnboundStartTag ==
    /\ mode = "full" /\ pc = "parsing"
    /\ Len(toks') = Len(toks) + 1
    /\ Last(toks').kind = "StartElement"
    /\ Last(toks').tag.space # ""
    /\ Last(toks').tag.space \notin DOMAIN space2prefix'

\* C17: in strict mode such a start tag ends the parse with the error
\* "namespace ... is missing" and no Element node is built for it; in tolerant
\* mode the parse goes on without error and the tag's Element node is built
\* and attached.
C17_MissingNamespaceStrictOnly ==
    [][UnboundStartTag =>
          IF strict
          THEN /\ pc' = "done" /\ ret' = Nil /\ err' = "namespace is missing"
               /\ \A n \in DOMAIN nodes' \ DOMAIN nodes : nodes'[n].Type # "Element"
          ELSE /\ pc' = "parsing" /\ err' = ""
               /\ LET n == Len(nodes')
                  IN  /\ n > Len(nodes)
                      /\ nodes'[n].Type = "Element"
                      /\ nodes'[n].Data = Last(toks').tag.name
                      /\ nodes'[n].NamespaceURI = Last(toks').tag.space
                      /\ nodes'[n].Parent # Nil
                      /\ n \in Reachable(nodes')
      ]_vars

\* a strict parse built an element and then failed on a start tag with an
\* undeclared prefix
C17_Witness ==
    /\ pc = "done" /\ mode = "full" /\ strict
    /\ err = "namespace is missing"
    /\ ElementsOf(nodes) # <<>>
    /\ Len(ElementsOf(nodes)) < Len(StartTags)

\* ---------------------------------------------------------------- C18
DefaultDecl == SrcAttr("", "xmlns", URI)

\* the step delivers a start tag
StartTagStep ==
    /\ mode = "full" /\ pc = "parsing"
    /\ Len(toks') = Len(toks) + 1
    /\ Last(toks').kind = "StartElement"

\* the step delivers a start tag whose only declaration is xmlns="u" while
\* u already has a binding
DefaultRedeclared ==
    /\ StartTagStep
    /\ Last(toks').tag.attr = <<DefaultDecl>>
    /\ URI \in DOMAIN space2prefix

\* the step delivers <p:B> inside an element that declares xmlns:p="u" while
\* the binding of u is that prefix
WrittenWithBoundPrefix ==
    /\ StartTagStep
    /\ Last(toks').tag.written = "p"
    /\ Last(toks').tag.space = URI
    /\ Last(toks').tag.attr = <<>>
    /\ URI \in DOMAIN space2prefix
    /\ space2prefix[URI].name = "p"

\* C18: a default declaration of an already bound URI replaces the binding
\* only if the binding's recorded depth is at least the depth of the declaring
\* element; a binding recorded at a shallower depth is left unchanged, and an
\* element written afterwards with that binding's prefix gets that Prefix.
C18_DefaultKeepsShallowerBinding ==
    [][/\ DefaultRedeclared =>
             /\ space2prefix'[URI] # space2prefix[URI]
                   => space2prefix[URI].level >= Len(stk')
             /\ space2prefix[URI].level < Len(stk')
                   => space2prefix'[URI] = space2prefix[URI]
       /\ WrittenWithBoundPrefix =>
             /\ pc' = "parsing"
             /\ nodes'[Len(nodes')].Type = "Element"
             /\ nodes'[Len(nodes')].Prefix = "p"
             /\ nodes'[Len(nodes')].NamespaceURI = URI
      ]_vars

\* <p:B> was delivered after an element inside the scope of xmlns:p="u"
\* redeclared xmlns="u", and its node has the Prefix p
C18_Witness ==
    /\ pc = "parsing" /\ mode = "full" /\ toks # <<>>
    /\ Last(toks).kind = "StartElement"
    /\ Last(toks).tag.written = "p" /\ Last(toks).tag.space = URI /\ Last(toks).tag.attr = <<>>
    /\ nodes[Len(nodes)].Prefix = "p"
    /\ \E i, j \in DOMAIN toks :
          /\ i < j
          /\ toks[i].kind = "StartElement"
          /\ SrcAttr("xmlns", "p", URI) \in Range(toks[i].tag.attr)
          /\ toks[j].kind = "StartElement"
          /\ toks[j].tag.attr = <<DefaultDecl>>
          /\ Len(OpenTags(SubSeq(toks, 1, j), <<>>)) > Len(OpenTags(SubSeq(toks, 1, i), <<>>))

\* ---------------------------------------------------------------- C19
Reverse(s) == [i \in DOMAIN s |-> s[Len(s) + 1 - i]]

\* the step delivers a start tag that declares both xmlns="u" and xmlns:p="u"
BothDeclared ==
    /\ StartTagStep
    /\ Range(Last(toks').tag.attr) = {DefaultDecl, SrcAttr("xmlns", "p", URI)}

\* C19: for a start tag that declares the same URI as default namespace and
\* with a prefix, the binding of the URI in effect after the tag is the one
\* the parser computes for the two declarations in the other order.
C19_DeclarationOrderIrrelevant ==
    [][BothDeclared =>
          space2prefix'[URI] =
              ApplyXmlns(space2prefix, Reverse(Last(toks').tag.attr),
                         IF level = 0 THEN 1 ELSE level)[URI]
      ]_vars

\* ---------------------------------------------------------------- C20
\* the step delivers character data inside an element
CharDataStep ==
    /\ pc = "parsing" /\ pc' = "parsing"
    /\ mode = "full" /\ stk # <<>>
    /\ Len(toks') = Len(toks) + 1
    /\ Last(toks').kind = "CharData"

\* C20: character data is built as a CharData node if and only if it was
\* written as a CDATA section, and as a Text node otherwise, wherever it
\* occurs; the node's Data is the token's data.
C20_CharDataIffCDATASection ==
    [][CharDataStep =>
          /\ Len(nodes') = Len(nodes) + 1
          /\ nodes'[Len(nodes')].Data = Last(toks').data
          /\ nodes'[Len(nodes')].Type =
                (IF Last(toks').cdata THEN "CharData" ELSE "Text")
      ]_vars

\* ---------------------------------------------------------------- C21
\* the step delivers a start tag written with a prefix that is declared in
\* scope, in a document whose declarations are all prefixed ones
PrefixedStartTag ==
    /\ StartTagStep
    /\ Last(toks').tag.written # ""
    /\ Last(toks').tag.space = URI
    /\ \A i \in DOMAIN toks' : DefaultDecl \notin Range(toks'[i].tag.attr)

\* C21: an element written with a prefix that is bound in scope is built with
\* that prefix as Prefix and the bound URI as NamespaceURI, also when several
\* prefixes are bound to the same URI.
C21_PrefixIsTheOneWritten ==
    [][PrefixedStartTag =>
          /\ pc' = "parsing"
          /\ nodes'[Len(nodes')].Type = "Element"
          /\ nodes'[Len(nodes')].NamespaceURI = URI
          /\ nodes'[Len(nodes')].Prefix = Last(toks').tag.written
      ]_vars

\* ---------------------------------------------------------------- C22
\* the step delivers a processing instruction outside any element
TopLevelProcInst ==
    /\ mode = "full" /\ pc = "parsing"
    /\ Len(toks') = Len(toks) + 1
    /\ Last(toks').kind = "ProcInst"
    /\ stk = <<>>

\* C22: a processing instruction at the top level of the document, before or
\* after the root element, is attached as a direct child of the Document.
C22_TopLevelProcInstUnderDocument ==
    [][TopLevelProcInst =>
          /\ pc' = "parsing"
          /\ Len(nodes') = Len(nodes) + 1
          /\ nodes'[Len(nodes')].Type \in {"Declaration", "ProcessingInstruction"}
          /\ nodes'[Len(nodes')].Parent = Doc
          /\ Last(Children(nodes', Doc)) = Len(nodes')
      ]_vars

\* ---------------------------------------------------------------- C27
\* the step delivers a processing instruction
ProcInstStep ==
    /\ pc = "parsing"
    /\ Len(toks') = Len(toks) + 1
    /\ Last(toks').kind = "ProcInst"

\* C27: a processing instruction raises the parser depth by one only when the
\* cursor is still the Document node (it is the first declaration); any
\* other processing instruction leaves the parser depth unchanged.
C27_OnlyFirstDeclarationAdvancesDepth ==
    [][ProcInstStep =>
          level' = (IF prev = Doc THEN level + 1 ELSE level)]_vars

\* ---------------------------------------------------------------- C23
CachingEnabled == ~DisableSelectorCache /\ SelectorCacheMaxEntries > 0

\* goroutine p returns from a getQuery call that went through the cache
ReturnsFromCache(p) == qpc[p] = "unlock" /\ qpc'[p] = "idle"

\* goroutine p looks up a key that the cache holds
CacheHit(p) == qpc[p] = "get" /\ qpc'[p] # "get" /\ qkey[p] \in Range(recent)

\* goroutine p inserts the object it compiled
Inserts(p) == qpc[p] = "add" /\ qpc'[p] = "unlock"

\* C23: with caching enabled, when a getQuery call returns the cache holds at
\* most SelectorCacheMaxEntries entries, whatever values the variable was
\* given between the calls; an insertion evicts nothing or the least
\* recently used key; a key that is in the cache is returned without
\* compiling.
C23_CacheBoundedLRU ==
    [][\A p \in Procs :
          /\ (ReturnsFromCache(p) /\ CachingEnabled)
                => Len(cache'.ll) <= SelectorCacheMaxEntries
          /\ Inserts(p)
                => \/ evicted' = evicted
                   \/ evicted' = Append(evicted, Last(recent))
          /\ CacheHit(p)
                => /\ compiled' = compiled
                   /\ qpc'[p] = "unlock"
                   /\ qret'[p] # 0
                   /\ compiled[qret'[p]] = qkey[p]
      ]_vars

\* ---------------------------------------------------------------- C24
\* goroutine p is between cacheMutex.Lock() and the deferred Unlock()
InCriticalSection(p) == qpc[p] \in {"get", "compile", "add", "unlock"}

\* C24: under every interleaving, lookup, compilation and insertion of one
\* getQuery call exclude those of every other call; a call compiles only a
\* key the cache does not hold, inserts it while no other call is in its
\* critical section, and a call whose key is in the cache gets the object
\* that was cached for it.
C24_GetQueryMutuallyExclusive ==
    /\ [](\A p, q \in Procs :
             (InCriticalSection(p) /\ InCriticalSection(q)) => p = q)
    /\ [][\A p \in Procs :
             /\ (qpc[p] = "compile" /\ qpc'[p] # "compile")
                   => qkey[p] \notin Range(lruKeys(cache))
             /\ Inserts(p)
                   => /\ qkey[p] \notin Range(lruKeys(cache))
                      /\ Len(cache'.ll) <= Len(cache.ll) + 1
                      /\ cache'.ll[1] = [key |-> qkey[p], value |-> qval[p]]
             /\ (qpc[p] = "get" /\ qpc'[p] # "get" /\ qkey[p] \in Range(lruKeys(cache)))
                   => /\ qpc'[p] = "unlock"
                      /\ compiled' = compiled
                      /\ \E i \in DOMAIN cache.ll :
                            cache.ll[i] = [key |-> qkey[p], value |-> qret'[p]]
         ]_vars

\* one goroutine waits for the mutex while the other, asked for the same
\* expression, is about to insert the object it compiled
C24_Witness ==
    \E p, q \in Procs :
       /\ qpc[p] = "lock" /\ qpc[q] = "add" /\ cacheMutex = q
       /\ qkey[p] = qkey[q]

\* ---------------------------------------------------------------- C25
\* C25: in every parser state the scope table binds the XML namespace URI
\* to the prefix "xml"; no declaration of the document overrides the entry.
C25_XmlNamespaceStaysBound ==
    /\ XMLNamespace \in DOMAIN space2prefix
    /\ space2prefix[XMLNamespace].name = "xml"

\* ---------------------------------------------------------------- C26
\* the start tag delivered by the step declares, in some attribute, the
\* namespace of its own name
DeclaresOwnNamespace(tag) ==
    /\ tag.space # ""
    /\ \E i \in DOMAIN tag.attr :
          /\ tag.attr[i].value = tag.space
          /\ \/ tag.attr[i].space = "xmlns" /\ tag.attr[i].local = tag.written
             \/ tag.attr[i].space = "" /\ tag.attr[i].local = "xmlns" /\ tag.written = ""

\* attribute i of the tag is in a namespace that attribute j of the same tag
\* declares for a prefix
DeclaredOnTag(tag, i, j) ==
    /\ tag.attr[i].space \notin {"", "xmlns"}
    /\ tag.attr[j].space = "xmlns"
    /\ tag.attr[j].value = tag.attr[i].space

\* C26: a start tag's declarations are in the scope table before its name
\* and attributes are resolved, wherever they stand in the tag: in strict mode
\* a tag that declares the namespace of its own name is parsed without the
\* missing-namespace error and its element is built, and an attribute in a
\* namespace declared on the tag gets a prefix the tag declares for it.
C26_DeclarationsAppliedFirst ==
    [][StartTagStep =>
          LET tag == Last(toks').tag
              n   == Len(nodes')
          IN  /\ (strict /\ DeclaresOwnNamespace(tag))
                    => /\ err' = "" /\ pc' = "parsing"
                       /\ n > Len(nodes)
                       /\ nodes'[n].Type = "Element"
                       /\ nodes'[n].NamespaceURI = tag.space
              /\ pc' = "parsing"
                    => \A i \in DOMAIN tag.attr :
                          (\E j \in DOMAIN tag.attr : DeclaredOnTag(tag, i, j))
                             => /\ nodes'[n].Attr[i].NamespaceURI = tag.attr[i].space
                                /\ \E j \in DOMAIN tag.attr :
                                      /\ DeclaredOnTag(tag, i, j)
                                      /\ nodes'[n].Attr[i].Space = tag.attr[j].local
      ]_vars

\* a strict parse built the element of <p:A p:k="1" xmlns:p="u">, whose
\* declaration stands behind the attribute that uses it
C26_Witness ==
    /\ pc = "parsing" /\ mode = "full" /\ strict
    /\ toks # <<>> /\ Last(toks).kind = "StartElement"
    /\ Len(Last(toks).tag.attr) = 2
    /\ DeclaresOwnNamespace(Last(toks).tag)
    /\ DeclaredOnTag(Last(toks).tag, 1, 2)
    /\ nodes[Len(nodes)].Type = "Element"
    /\ nodes[Len(nodes)].Attr[1].Space = "p"

\* ---------------------------------------------------------------- C28
\* the step processes the end tag that closes the candidate and returns it
YieldStep == Len(yielded') = Len(yielded) + 1

\* C28: a candidate that the target expression selected at its start tag is
\* returned at its end tag only if the target expression, evaluated on the
\* tree as it is then, still selects it.
C28_TargetVerifiedAtEndTag ==
    [][(YieldStep /\ ret' \in selfMatched)
          => Selects(nodes', streamElementXPath, ret')]_vars

\* ---------------------------------------------------------------- C29
\* a stream parse is under way with a candidate whose end tag is not yet seen
CandidateOpen == mode = "stream" /\ pc = "parsing" /\ streamNode # Nil

\* the number of open elements from the candidate inwards
OpenInCandidate ==
    Cardinality({i \in DOMAIN open : \E j \in 1..i : open[j] = streamNode})

\* the step takes the reject path
RejectStep == rejected' # rejected

\* C29: while a candidate is open the stream counter is the number of open
\* elements inside the candidate, the candidate included: 1 after its start
\* tag, one more per later start tag, one less per end tag.  It becomes 0
\* exactly at the end tag that closes the candidate, and a candidate is
\* yielded or rejected at that token and at no other.
C29_CounterCountsOpenElements ==
    /\ [](CandidateOpen =>
             /\ streamNode \in Range(open)
             /\ streamElementNodeCounter = OpenInCandidate
             /\ streamElementNodeCounter >= 1)
    /\ [][CandidateOpen =>
             LET closes == Len(open') < Len(open) /\ Last(open) = streamNode
             IN  /\ (Len(open') > Len(open) /\ pc' = "parsing")
                       => streamElementNodeCounter' = streamElementNodeCounter + 1
                 /\ Len(open') < Len(open)
                       => streamElementNodeCounter' = streamElementNodeCounter - 1
                 /\ closes <=> (streamElementNodeCounter' = 0
                                   /\ streamElementNodeCounter # 0)
                 /\ closes <=> (YieldStep \/ RejectStep)
         ]_vars

\* a candidate with an element open inside it, after an earlier candidate
\* was yielded or rejected
C29_Witness ==
    /\ CandidateOpen
    /\ streamElementNodeCounter = 2
    /\ Len(open) = 3
    /\ Len(yielded) + Cardinality(rejected) >= 1

WalkStaysInTree ==
    level < nodes[prev].level =>
        LET w == WalkUp(nodes, prev, nodes[prev].level - level)
        IN  w # Nil /\ nodes[w].Parent # Nil

\* C31: the parser never dereferences a nil cursor or a nil Parent: in every
\* state in which a token can arrive, in full and in streaming mode, the
\* cursor is a node and the upward walk from it stays below the Document.
C31_WalkNeverPassesDocument ==
    /\ pc # "panic"
    /\ Parsing => prev # Nil /\ WalkStaysInTree

\* a stream parse attached a text node after a walk of two Parent steps: the
\* cursor moved up from a closed element two levels deeper to its parent
C31_Witness ==
    /\ mode = "stream" /\ Parsing
    /\ toks # <<>> /\ Last(toks).kind = "CharData"
    /\ Len(toks) >= 2 /\ toks[Len(toks) - 1].kind = "EndElement"
    /\ nodes[Len(nodes)].Type = "Text"
    /\ nodes[prev].level = nodes[Len(nodes)].level + 1
    /\ nodes[prev].LastChild # Nil
    /\ nodes[nodes[prev].LastChild].level = nodes[Len(nodes)].level + 2
    /\ nodes[Len(nodes)].Parent = nodes[nodes[prev].Parent].Parent

\* ---------------------------------------------------------------- C32
RECURSIVE FirstSibling(_, _, _)
\* the head of the sibling chain s is in
FirstSibling(ns, s, fuel) ==
    IF fuel = 0 \/ ns[s].PrevSibling = Nil THEN s
    ELSE FirstSibling(ns, ns[s].PrevSibling, fuel - 1)

\* the sibling chain s is in, first to last
SiblingChain(ns, s) == Chain(ns, FirstSibling(ns, s, Len(ns)), Len(ns))

\* C32: on every tree the parser builds and for every node s of it, first,
\* middle or last of its chain, AddSibling(s, n) with a fresh node n puts n
\* behind the last sibling of the chain, leaves the order of the others as it
\* was, gives n the Parent of the chain and makes it that parent's LastChild;
\* no other node changes.
C32_AddSiblingAppendsAtChainEnd ==
    \A s \in DOMAIN nodes :
        LET n    == Len(nodes) + 1
            r    == AddSibling(Append(nodes, NewNode("Text", "x", 0)), s, n)
            p    == nodes[s].Parent
            last == Last(SiblingChain(nodes, s))
        IN  /\ SiblingChain(r, s) = Append(SiblingChain(nodes, s), n)
            /\ r[n].Parent = p
            /\ r[n].PrevSibling = last /\ r[n].NextSibling = Nil
            /\ p # Nil => /\ r[p].LastChild = n
                          /\ r[p].FirstChild = nodes[p].FirstChild
                          /\ Children(r, p) = Append(Children(nodes, p), n)
            /\ \A m \in DOMAIN nodes : m \notin {last, p} => r[m] = nodes[m]

\* the parser attached a text node by AddSibling(p.prev, node) while the
\* cursor had a next sibling already: the node went behind that sibling
C32_Witness ==
    /\ Parsing /\ toks # <<>> /\ Last(toks).kind = "CharData"
    /\ LET n == Len(nodes)
       IN  /\ nodes[n].Type = "Text"
           /\ nodes[n].level = nodes[prev].level
           /\ nodes[n].Parent = nodes[prev].Parent /\ nodes[n].Parent # Nil
           /\ nodes[prev].NextSibling \notin {Nil, n}
           /\ nodes[prev].PrevSibling # Nil
           /\ nodes[nodes[n].Parent].LastChild = n

\* ---------------------------------------------------------------- C33
\* the first k elements of s, all of s if it is shorter
Truncate(s, k) == SubSeq(s, 1, IF Len(s) < k THEN Len(s) ELSE k)

\* C33: Cache() is the sequence of bytes ReadByte and Read have handed to
\* the caller while caching since the last StartCaching, cut to the first
\* cacheCap bytes; in particular it is empty after StartCaching, unchanged by
\* reads after StopCaching, and never longer than cacheCap.
C33_CacheIsDeliveredPrefix ==
    /\ cacheLen <= cacheCap
    /\ Cache = Truncate(delivered, cacheCap)

\* ---------------------------------------------------------------- C34
\* the token budget of the entry point in use
TokenBudget == IF mode = "full" THEN MaxTokens ELSE MaxStreamTokens

\* what a call has returned: a node, or an error, never both and never neither
OneOutcome ==
    /\ (mode = "stream" /\ pc = "idle" /\ ret # Nil) => err = ""
    /\ (mode = "stream" /\ pc = "done") => (ret = Nil /\ err # "")
    /\ (mode = "full" /\ pc = "done") => (ret = Doc /\ err = "") \/ (ret = Nil /\ err # "")

\* every sibling before the node Read is about to prune has a Parent, and
\* removing the nearest one takes exactly that one out of the chain
PruneShortens ==
    (mode = "stream" /\ pc = "idle" /\ streamNode # Nil) =>
        LET b == nodes[streamNode].PrevSibling
        IN  /\ \A x \in Before(nodes, streamNode, Len(nodes)) : nodes[x].Parent # Nil
            /\ b # Nil =>
                  Before(RemoveFromTree(nodes, b), streamNode, Len(nodes))
                     = Before(nodes, streamNode, Len(nodes)) \ {b}

\* C34: a Read or Parse call ends, and ends in one outcome: every turn of
\* the parse loop consumes one token of the finite stream, the loop is left
\* only by returning a node or an error, the pruning loop of Read never runs
\* forever, each of its turns taking one node off the chain of preceding
\* siblings.
C34_CallsTerminateWithOneOutcome ==
    /\ [](pc # "hang" /\ OneOutcome /\ PruneShortens)
    /\ [][Parsing =>
             /\ Parsing' => ntok' = ntok + 1 /\ ntok' <= TokenBudget
             /\ ~Parsing' => pc' \in {"idle", "done"} /\ (ret' # Nil \/ err' # "")
         ]_vars

\* a Read pruned a text node that preceded the node returned before, went
\* on, and returned the end of the stream
C34_Witness ==
    /\ mode = "stream" /\ pc = "done" /\ err = "EOF" /\ ret = Nil
    /\ yielded # <<>>
    /\ \E n \in DOMAIN nodes :
          /\ nodes[n].Type = "Text" /\ n < Last(yielded)
          /\ refParent[n] = refParent[Last(yielded)]
          /\ Detached(nodes, n)
          /\ Detached(nodes, Last(yielded))

\* ---------------------------------------------------------------- C35
\* the candidate's start tag was the first start tag of the input, so that
\* the implicit declaration was made while processing it
DeclarationMadeAtCandidate ==
    /\ streamNode > 1
    /\ nodes[streamNode - 1].Type = "Declaration"
    /\ nodes[streamNode - 1].Attr # <<>>

\* the nodes that existed before the candidate's start tag arrived
BeforeCandidate ==
    {m \in DOMAIN nodes : m < streamNode}
        \ (IF DeclarationMadeAtCandidate THEN {streamNode - 1} ELSE {})

\* the parser depth before the candidate's start tag arrived
DepthBeforeCandidate ==
    IF DeclarationMadeAtCandidate THEN 0 ELSE nodes[streamNode].level

\* C35: after a rejection the parser is where it was before the candidate's
\* start tag arrived, which is where the input without the candidate's tokens
\* leaves it: the tree under the Document consists of the nodes reachable
\* before, linked only among themselves, the depth is the depth before, and
\* the cursor is a node that existed before.
C35_RejectLeavesNoTrace ==
    [][RejectStep =>
          /\ Reachable(nodes') = Reachable(nodes) \cap BeforeCandidate
          /\ \A m \in Reachable(nodes') :
                {nodes'[m].Parent, nodes'[m].FirstChild, nodes'[m].LastChild,
                 nodes'[m].PrevSibling, nodes'[m].NextSibling}
                    \subseteq BeforeCandidate \cup {Nil}
          /\ level' = DepthBeforeCandidate
          /\ prev' \in BeforeCandidate
      ]_vars

\* ---------------------------------------------------------------- C36
\* C36: every node built for a token is attached beneath the Document: it
\* has a Parent and is reachable from the Document through FirstChild and
\* NextSibling links of its descendants, and the Document itself never gets
\* a PrevSibling or a NextSibling.
C36_NodesAttachedBelowDocument ==
    [][(Parsing /\ Len(nodes') > Len(nodes)) =>
          /\ \A n \in DOMAIN nodes' \ DOMAIN nodes :
                /\ nodes'[n].Parent # Nil
                /\ n \in Subtree(nodes', Doc)
          /\ nodes'[Doc].PrevSibling = Nil
          /\ nodes'[Doc].NextSibling = Nil
      ]_vars

\* ---------------------------------------------------------------- C37
\* the Declaration nodes the parser made up itself (version="1.0")
Synthesized ==
    {n \in DOMAIN nodes : nodes[n].Type = "Declaration" /\ nodes[n].Attr # <<>>}

\* a start tag or a processing instruction has been processed
DepthRaised ==
    \E i \in DOMAIN toks : toks[i].kind \in {"StartElement", "ProcInst"}

\* C37: a parser makes at most one implicit Declaration node, and once a
\* start tag or a processing instruction has been processed its depth is at
\* least 1 in every later state, in full and in streaming mode.
C37_DeclarationSynthesizedOnce ==
    /\ Cardinality(Synthesized) <= 1
    /\ DepthRaised => level >= 1

\* a stream parser has returned two nodes, closed every element and reads
\* on: its depth is 1 and the one implicit declaration was pruned long ago
C37_Witness ==
    /\ mode = "stream" /\ Parsing /\ Len(yielded) = 2
    /\ stk = <<>> /\ level = 1
    /\ Cardinality(Synthesized) = 1
    /\ \A n \in Synthesized : nodes[n].Parent = Nil

\* ---------------------------------------------------------------- C38
RECURSIVE EnclosingElements(_, _)
\* the elements that were open when node n was built, innermost first
EnclosingElements(n, fuel) ==
    IF fuel = 0 \/ refParent[n] \in {Nil, Doc} THEN {}
    ELSE {refParent[n]} \cup EnclosingElements(refParent[n], fuel - 1)

\* C38: while a candidate is open, every step but the one that closes it
\* leaves the candidate and the saved cursor as they are; a start tag that
\* arrives meanwhile, target-matching or not, only adds 1 to the counter; and
\* no node Read returns was built inside an element that was itself a
\* candidate.
C38_OneCandidateAtATime ==
    /\ [][CandidateOpen =>
             /\ ~(Len(open') < Len(open) /\ Last(open) = streamNode)
                   => /\ streamNode' = streamNode
                      /\ streamNodePrev' = streamNodePrev
                      /\ yielded' = yielded /\ rejected' = rejected
             /\ (Len(open') > Len(open) /\ pc' = "parsing")
                   => /\ streamElementNodeCounter' = streamElementNodeCounter + 1
                      /\ Last(open') \in Subtree(nodes', streamNode)
         ]_vars
    /\ [](\A i \in DOMAIN yielded :
             EnclosingElements(yielded[i], Len(nodes))
                \cap (Range(yielded) \cup rejected \cup {streamNode}) = {})

\* Read returned an element that matches the target and has a child that
\* matches it too
C38_Witness ==
    /\ mode = "stream" /\ pc = "idle" /\ ret # Nil
    /\ ret \in Range(refMatch)
    /\ \E n \in Range(refMatch) :
          /\ n # ret /\ nodes[n].Parent = ret /\ refParent[n] = ret
          /\ QuerySelector(nodes, streamElementXPath) # Nil

\* ---------------------------------------------------------------- C39
\* the step processes an end tag
EndTagStep ==
    /\ pc = "parsing"
    /\ Len(toks') = Len(toks) + 1
    /\ Last(toks').kind = "EndElement"

\* the namespaces a tag declares
DeclaredBy(tag) ==
    {tag.attr[i].value : i \in {j \in DOMAIN tag.attr :
                                   tag.attr[j].space = "xmlns" \/ tag.attr[j].local = "xmlns"}}

\* C39: an end tag leaves the scope table as it is; no step ever removes a
\* binding; and a start tag, inside or outside the element that declared a
\* binding, finds the binding as it was left unless the tag itself declares
\* that namespace, and resolves its attributes with the table it leaves.
C39_EndTagKeepsScopeTable ==
    [][/\ EndTagStep => space2prefix' = space2prefix
       /\ pc = "parsing" => DOMAIN space2prefix \subseteq DOMAIN space2prefix'
       /\ StartTagStep =>
             /\ \A u \in DOMAIN space2prefix \ DeclaredBy(Last(toks').tag) :
                   space2prefix'[u] = space2prefix[u]
             /\ pc' = "parsing" =>
                   nodes'[Len(nodes')].Attr
                       = NodeAttrs(space2prefix', Last(toks').tag.attr)
      ]_vars

\* the element that bound u to the prefix p is closed, no open element
\* declares p, and a later start tag in namespace u has been processed with
\* the table still binding u to p
C39_Witness ==
    /\ mode = "full" /\ pc = "parsing"
    /\ toks # <<>> /\ Last(toks).kind = "StartElement"
    /\ Last(toks).tag.space = URI
    /\ URI \in DOMAIN space2prefix /\ space2prefix[URI].name = "p"
    /\ \A i \in DOMAIN OpenTags(toks, <<>>) :
          \A j \in DOMAIN OpenTags(toks, <<>>)[i].attr :
             ~(OpenTags(toks, <<>>)[i].attr[j].space = "xmlns"
               /\ OpenTags(toks, <<>>)[i].attr[j].local = "p")
    /\ \E i \in DOMAIN toks : toks[i].kind = "EndElement"

====
